---- MODULE Spec2Model ----
(***************************************************************************)
(* A model of the Go-modules prefetcher of cachi2                          *)
(* (cachi2/core/package_managers/gomod.py).                                *)
(*                                                                         *)
(* Strings whose characters the code inspects (module paths, replacement   *)
(* paths, sub-paths) are sequences of one-character strings; an Optional   *)
(* value is a sequence of length 0 (None) or 1.                            *)
(***************************************************************************)
EXTENDS Integers, Sequences, FiniteSets, TLC

\* ------------------------------------------------------------------ bounds

\* Most module sub-paths (request.gomod_packages) of one request.
MaxSubpaths == 2
\* Largest configured gomod_download_max_tries of a request.
MaxTries == 2
\* Largest configured gomod_download_max_tries when the download invoker is
\* exercised on its own.
MaxDownloadTries == 5
\* Longest package-modules-set and downloaded-set given to the merge step on
\* its own.
MaxMods == 2

\* ---------------------------------------------------------------- Optional

None == <<>>

Some(x) == <<x>>

\* ------------------------------------------------------------------ strings

\* str.startswith(prefix)
startswith(s, prefix) ==
    /\ Len(prefix) <= Len(s)
    /\ SubSeq(s, 1, Len(prefix)) = prefix

\* The index of the first "/" of s at or after position i, Len(s)+1 if none.
RECURSIVE NextSlash(_, _)
NextSlash(s, i) ==
    IF i > Len(s) THEN Len(s) + 1
    ELSE IF s[i] = "/" THEN i
    ELSE NextSlash(s, i + 1)

\* The path segments of s from position i on: the pieces between "/", the
\* empty ones dropped, as pathlib parses a path.
RECURSIVE SegmentsFrom(_, _)
SegmentsFrom(s, i) ==
    IF i > Len(s) THEN <<>>
    ELSE LET j == NextSlash(s, i)
         IN  IF j = i THEN SegmentsFrom(s, i + 1)
             ELSE <<SubSeq(s, i, j - 1)>> \o SegmentsFrom(s, j + 1)

Segments(s) == SegmentsFrom(s, 1)

IsAbsolute(s) == Len(s) > 0 /\ s[1] = "/"

\* Path.resolve() on the segments of an absolute path: "." is dropped, ".."
\* removes the segment before it (and stays at "/" when there is none).
RECURSIVE ResolveSegments(_, _)
ResolveSegments(done, todo) ==
    IF todo = <<>> THEN done
    ELSE LET h == Head(todo)
         IN  IF h = <<".">> THEN ResolveSegments(done, Tail(todo))
             ELSE IF h = <<".", ".">>
                  THEN ResolveSegments(
                           IF done = <<>> THEN done
                           ELSE SubSeq(done, 1, Len(done) - 1),
                           Tail(todo))
             ELSE ResolveSegments(Append(done, h), Tail(todo))

IsPrefixSeq(p, s) == Len(p) <= Len(s) /\ SubSeq(s, 1, Len(p)) = p

\* The repository root (request.source_dir), an absolute path: "/r".
RepoRoot == <<<<"r">>>>

\* RootedPath.join_within_root: the joined path, resolved, and whether it
\* stays below the root. `at` is the segments of the RootedPath's own path.
join_within_root(at, other) ==
    LET joined == IF IsAbsolute(other)
                  THEN ResolveSegments(<<>>, Segments(other))
                  ELSE ResolveSegments(<<>>, at \o Segments(other))
    IN  [path |-> joined, inside |-> IsPrefixSeq(RepoRoot, joined)]

\* The app directory of a module sub-path ("." or a directory name).
AppDir(subpath) == join_within_root(RepoRoot, subpath).path

\* Path.as_posix() of the segments of a relative path.
RECURSIVE JoinSegments(_)
JoinSegments(segs) ==
    IF segs = <<>> THEN <<>>
    ELSE IF Len(segs) = 1 THEN segs[1]
    ELSE segs[1] \o <<"/">> \o JoinSegments(Tail(segs))

\* os.path.normpath on the segments of a relative path: "." is dropped, ".."
\* removes the segment before it and is kept when there is none to remove.
RECURSIVE NormSegments(_, _)
NormSegments(done, todo) ==
    IF todo = <<>> THEN done
    ELSE LET h == Head(todo)
         IN  IF h = <<".">> THEN NormSegments(done, Tail(todo))
             ELSE IF h = <<".", ".">>
                       /\ done # <<>> /\ done[Len(done)] # <<".", ".">>
                  THEN NormSegments(SubSeq(done, 1, Len(done) - 1), Tail(todo))
             ELSE NormSegments(Append(done, h), Tail(todo))

\* ------------------------------------------------------------ parsed data

\* ParsedModule: path, version (Optional), main, replace (Optional; of a
\* replacement only path and version are read).
ParsedModule(path, version, replace) ==
    [path |-> path, version |-> version, main |-> FALSE, replace |-> replace]

Replace(path, version) == [path |-> path, version |-> version]

\* Python truthiness of an Optional[str].
Truthy(opt) == opt # None /\ opt[1] # <<>>

\* Module: the canonical record of a module.
Module(name, version, original_name, real_path) ==
    [name |-> name, original_name |-> original_name, real_path |-> real_path,
     version |-> version, main |-> FALSE]

\* ---------------------------------------------------------------- merging

\* A plausible slip: a local replacement keyed like an unreplaced module.
get_unique_key_by_version(module) ==
    IF module.replace = None THEN <<module.path, module.version>>
    ELSE IF Truthy(module.replace[1].version)
         THEN <<module.replace[1].path, module.replace[1].version>>
    ELSE <<module.path, module.version>>

\* _deduplicate_resolved_modules.get_unique_key: a pair (str, Optional[str]).
get_unique_key(module) ==
    IF module.replace = None THEN <<module.path, module.version>>
    ELSE IF Truthy(module.replace[1].version)
         THEN <<module.replace[1].path, module.replace[1].version>>
    ELSE <<module.path, Some(module.replace[1].path)>>

\* dict.setdefault over the chained modules; the dict keeps insertion order,
\* so its values are the first module of each key, in order of first
\* occurrence.
RECURSIVE setdefault_all(_, _)
setdefault_all(kept, todo) ==
    IF todo = <<>> THEN kept
    ELSE LET m == Head(todo)
             present == \E i \in 1..Len(kept) :
                           get_unique_key(kept[i]) = get_unique_key(m)
         IN  setdefault_all(IF present THEN kept ELSE Append(kept, m), Tail(todo))

\* A plausible slip: the two views concatenated without deduplication.
_deduplicate_chain_only(package_modules, downloaded_modules) ==
    package_modules \o downloaded_modules

\* A plausible slip: the downloaded modules chained first.
_deduplicate_downloaded_first(package_modules, downloaded_modules) ==
    setdefault_all(<<>>, downloaded_modules \o package_modules)

_deduplicate_resolved_modules(package_modules, downloaded_modules) ==
    setdefault_all(<<>>, package_modules \o downloaded_modules)

\* -------------------------------------------------- local replacements

\* The (name, path) pairs _validate_local_replacements checks, in order.
RECURSIVE replaced_paths(_)
replaced_paths(modules) ==
    IF modules = <<>> THEN <<>>
    ELSE LET m == Head(modules)
         IN  (IF m.replace # None /\ startswith(m.replace[1].path, <<".">>)
              THEN <<<<m.path, m.replace[1].path>>>>
              ELSE <<>>) \o replaced_paths(Tail(modules))

NoError == [raise |-> "none", names |-> <<>>]

\* A plausible slip: the validation never rejects.
_validate_nothing(modules, app_path) == NoError

\* _validate_local_replacements: the first checked pair that joins outside
\* the root raises PathOutsideRoot, whose solution names the pair.
_validate_local_replacements(modules, app_path) ==
    LET pairs == replaced_paths(modules)
        bad == {i \in 1..Len(pairs) :
                   ~join_within_root(app_path, pairs[i][2]).inside}
    IN  IF bad = {} THEN NoError
        ELSE LET i == CHOOSE k \in bad : \A j \in bad : k <= j
             IN  [raise |-> "PathOutsideRoot", names |-> pairs[i]]

\* ------------------------------------------------------- canonical modules

Raised(kind) == [raise |-> kind, value |-> <<>>]

Returned(v) == [raise |-> "none", value |-> v]

\* _create_modules_from_parsed_data._resolve_path_for_local_replacement:
\* normpath of "<main real_path>/<replace.path>", as a posix path.
_resolve_path_for_local_replacement(main_real_path, module) ==
    JoinSegments(NormSegments(<<>>,
        Segments(main_real_path \o <<"/">> \o module.replace[1].path)))

\* A plausible slip: a version replacement keeps the declared version.
_create_module_declared_version(module, main_module_dir, main_real_path, reified) ==
    IF module.replace = None
    THEN Returned(Module(module.path,
                         IF Truthy(module.version) THEN module.version[1] ELSE <<>>,
                         module.path, module.path))
    ELSE IF Truthy(module.replace[1].version)
    THEN Returned(Module(module.replace[1].path,
                         IF Truthy(module.version) THEN module.version[1] ELSE <<>>,
                         module.path, module.replace[1].path))
    ELSE IF ~join_within_root(main_module_dir, module.replace[1].path).inside
    THEN Raised("PathOutsideRoot")
    ELSE Returned(Module(module.path, reified, module.path,
                         _resolve_path_for_local_replacement(main_real_path, module)))

\* _create_modules_from_parsed_data._create_module. `reified` is what
\* _get_golang_version returns for a locally replaced module.
_create_module(module, main_module_dir, main_real_path, reified) ==
    IF module.replace = None
    THEN Returned(Module(module.path,
                         IF Truthy(module.version) THEN module.version[1] ELSE <<>>,
                         module.path, module.path))
    ELSE IF Truthy(module.replace[1].version)
    THEN Returned(Module(module.replace[1].path, module.replace[1].version[1],
                         module.path, module.replace[1].path))
    ELSE IF ~join_within_root(main_module_dir, module.replace[1].path).inside
    THEN Raised("PathOutsideRoot")
    ELSE Returned(Module(module.path, reified, module.path,
                         _resolve_path_for_local_replacement(main_real_path, module)))

\* The list comprehension of _create_modules_from_parsed_data: the first
\* module whose construction raises ends it.
RECURSIVE create_modules_from(_, _, _, _, _)
create_modules_from(done, todo, main_module_dir, main_real_path, reified) ==
    IF todo = <<>> THEN Returned(done)
    ELSE LET r == _create_module(Head(todo), main_module_dir, main_real_path, reified)
         IN  IF r.raise # "none" THEN Raised(r.raise)
             ELSE create_modules_from(Append(done, r.value), Tail(todo),
                                      main_module_dir, main_real_path, reified)

_create_modules_from_parsed_data(main_real_path, main_module_dir, parsed_modules, reified) ==
    create_modules_from(<<>>, parsed_modules, main_module_dir, main_real_path, reified)

\* The repository name _get_repository_name derives from the origin URL.
repo_name == <<"g">>

\* _create_main_module_from_parsed_data; subpath is the module's sub-path
\* from the root ("." for the root itself).
_create_main_module_from_parsed_data(subpath, parsed_main_module) ==
    IF ~Truthy(parsed_main_module.version) THEN Raised("RuntimeError")
    ELSE Returned(Module(parsed_main_module.path,
                         parsed_main_module.version[1],
                         parsed_main_module.path,
                         IF subpath = <<".">> THEN repo_name
                         ELSE repo_name \o <<"/">> \o subpath))

\* ------------------------------------------------------ vendoring arbiter

\* What app_dir/vendor is on disk: nothing, a directory, or a file.
VendorKinds == {"absent", "dir", "file"}

\* Path.exists()
exists(kind) == kind # "absent"

\* Path.is_dir()
is_dir(kind) == kind = "dir"

\* A plausible slip: gomod-vendor tested before gomod-vendor-check.
_should_vendor_deps_vendor_first(flags_, vendor, strict_) ==
    IF "gomod-vendor" \in flags_ THEN Returned(<<TRUE, TRUE>>)
    ELSE IF "gomod-vendor-check" \in flags_ THEN Returned(<<TRUE, ~exists(vendor)>>)
    ELSE IF strict_ /\ is_dir(vendor) THEN Raised("PackageRejected")
    ELSE Returned(<<FALSE, FALSE>>)

\* A plausible slip: the strict check tests exists() like the flag check.
_should_vendor_deps_exists(flags_, vendor, strict_) ==
    IF "gomod-vendor-check" \in flags_ THEN Returned(<<TRUE, ~exists(vendor)>>)
    ELSE IF "gomod-vendor" \in flags_ THEN Returned(<<TRUE, TRUE>>)
    ELSE IF strict_ /\ exists(vendor) THEN Raised("PackageRejected")
    ELSE Returned(<<FALSE, FALSE>>)

\* _should_vendor_deps: (should vendor, can make changes), or PackageRejected.
_should_vendor_deps(flags_, vendor, strict_) ==
    IF "gomod-vendor-check" \in flags_ THEN Returned(<<TRUE, ~exists(vendor)>>)
    ELSE IF "gomod-vendor" \in flags_ THEN Returned(<<TRUE, TRUE>>)
    ELSE IF strict_ /\ is_dir(vendor) THEN Raised("PackageRejected")
    ELSE Returned(<<FALSE, FALSE>>)

\* ----------------------------------------------------------- subprocesses

\* GoCacheTemporaryDirectory's name, the tmp_dir of the request.
tmp_dir == "tmp_dir"

\* The environment of the process itself (os.environ).
os_environ ==
    ("PATH" :> "os.environ[PATH]") @@ ("HOME" :> "os.environ[HOME]")
    @@ ("GOFLAGS" :> "os.environ[GOFLAGS]") @@ ("GOPATH" :> "os.environ[GOPATH]")

NoEnv == [n \in {} |-> ""]

\* Whether config.goproxy_url is set; the configuration's default is a
\* proxy URL.
goproxy_url == TRUE

\* A plausible slip: run_params' env built on a copy of os.environ.
resolve_env_inherit(flags_) ==
    ("GOPATH" :> tmp_dir) @@ ("GO111MODULE" :> "on") @@ ("GOCACHE" :> tmp_dir)
    @@ ("GOMODCACHE" :> "tmp_dir/pkg/mod")
    @@ (IF goproxy_url THEN "GOPROXY" :> "config.goproxy_url" ELSE NoEnv)
    @@ (IF "cgo-disable" \in flags_ THEN "CGO_ENABLED" :> "0" ELSE NoEnv)
    @@ os_environ

\* The env of _resolve_gomod's run_params.
resolve_env(flags_) ==
    ("GOPATH" :> tmp_dir) @@ ("GO111MODULE" :> "on") @@ ("GOCACHE" :> tmp_dir)
    @@ ("PATH" :> os_environ["PATH"]) @@ ("GOMODCACHE" :> "tmp_dir/pkg/mod")
    @@ (IF goproxy_url THEN "GOPROXY" :> "config.goproxy_url" ELSE NoEnv)
    @@ (IF "cgo-disable" \in flags_ THEN "CGO_ENABLED" :> "0" ELSE NoEnv)

\* The env GoCacheTemporaryDirectory.__exit__ gives `go clean -modcache`.
exit_env == ("GOPATH" :> tmp_dir) @@ ("GOCACHE" :> tmp_dir)

\* One subprocess.run of run_cmd, for sub-path number sub (0: for the
\* request). has_env is whether the params given to run_cmd hold "env".
Cmd(sub, argv, has_env, env) ==
    [ev |-> "cmd", sub |-> sub, argv |-> argv, has_env |-> has_env,
     env |-> env, note |-> <<>>, outcome |-> "ok"]

\* Any other recorded step: a git command, a sleep, a file operation.
Ev(kind, sub, note) ==
    [ev |-> kind, sub |-> sub, argv |-> <<>>, has_env |-> FALSE,
     env |-> NoEnv, note |-> note, outcome |-> "ok"]

\* The step with what it ended in.
Ran(e, outcome) == [e EXCEPT !.outcome = outcome]

GoVersion == <<"go", "version">>
GoModDownload == <<"go", "mod", "download", "-json">>
GoModVendor == <<"go", "mod", "vendor">>
GoModTidy == <<"go", "mod", "tidy">>
GoClean == <<"go", "clean", "-modcache">>

\* A plausible slip: -mod readonly whatever the arbiter found.
go_list_always_readonly(should_vendor_) ==
    <<"go", "list", "-e", "-mod", "readonly">>

\* go_list of _resolve_gomod.
go_list(should_vendor_) ==
    <<"go", "list", "-e">>
    \o (IF ~should_vendor_ THEN <<"-mod", "readonly">> ELSE <<>>)

go_list_deps(should_vendor_, pattern) ==
    go_list(should_vendor_)
    \o <<"-deps", "-json=ImportPath,Module,Standard,Deps", pattern>>

\* What one run of a command ends with: success, CalledProcessError (a
\* non-zero exit), or another error of subprocess.run (TimeoutExpired,
\* OSError).
CmdOutcomes == {"ok", "CalledProcessError", "OtherError"}

\* _run_gomod_cmd: CalledProcessError becomes GoModError, the rest passes.
_run_gomod_cmd(outcome) ==
    CASE outcome = "ok" -> "none"
      [] outcome = "CalledProcessError" -> "GoModError"
      [] OTHER -> outcome

\* ------------------------------------------------------- download invoker

\* backoff.expo: the wait before retry number i (1, 2, 4, ...).
expo(i) == 2 ^ (i - 1)

\* The runs of a download command: `fails` attempts that end in GoModError,
\* each but possibly the last followed by a sleep, then (unless the tries
\* are used up) one attempt that ends as `last`.
RECURSIVE failed_attempts(_, _, _, _)
failed_attempts(cmd_event, i, fails, max_tries) ==
    IF i > fails THEN <<>>
    ELSE <<Ran(cmd_event, "CalledProcessError")>>
         \o (IF i < max_tries THEN <<Ev("sleep", cmd_event.sub, <<expo(i)>>)>>
             ELSE <<>>)
         \o failed_attempts(cmd_event, i + 1, fails, max_tries)

\* How a call of _run_download_cmd with n_tries can go: fewer than n_tries
\* failures and then a success or an error that is no GoModError, or
\* n_tries failures.
DownloadScenarios(n_tries_) ==
    {[fails |-> k, last |-> l] :
         k \in 0..(n_tries_ - 1), l \in {"ok", "OtherError"}}
    \cup {[fails |-> n_tries_, last |-> "CalledProcessError"]}

\* A plausible slip: one attempt more than configured.
_run_download_cmd_one_more(cmd_event, n_tries_, scen) ==
    LET gave_up == scen.fails >= n_tries_
    IN  [events |-> failed_attempts(cmd_event, 1, scen.fails, n_tries_ + 1)
                    \o <<Ran(cmd_event, scen.last)>>,
         raise |-> IF gave_up THEN "GoModError" ELSE _run_gomod_cmd(scen.last),
         tried |-> IF gave_up THEN n_tries_ ELSE 0]

\* _run_download_cmd under backoff.on_exception(expo, GoModError,
\* jitter=None, max_tries=n_tries). `tried` is the number of attempts the
\* final GoModError states.
_run_download_cmd(cmd_event, n_tries_, scen) ==
    LET gave_up == scen.fails >= n_tries_
    IN  [events |-> failed_attempts(cmd_event, 1, scen.fails, n_tries_)
                    \o (IF gave_up THEN <<>> ELSE <<Ran(cmd_event, scen.last)>>),
         raise |-> IF gave_up THEN "GoModError" ELSE _run_gomod_cmd(scen.last),
         tried |-> IF gave_up THEN n_tries_ ELSE 0]

\* ------------------------------------------------ vendor mutation detector

\* How a call of _vendor_changed can go: where it stops, and whether the
\* reset of its finally clause succeeds.
VendorChangedScenarios ==
    {[at |-> a, reset_ok |-> TRUE] : a \in {"repo_error", "add_error"}}
    \cup {[at |-> a, reset_ok |-> r] :
              a \in {"manifest_error", "manifest_changed", "tree_error",
                     "tree_changed", "unchanged"},
              r \in BOOLEAN}

GitRepo == <<"Repo">>
GitAdd == <<"add", "--intent-to-add", "--force", "--", "app_dir">>
GitDiffManifest == <<"diff", "--", "vendor/modules.txt">>
GitDiffTree == <<"diff", "--name-status", "--", "vendor">>
GitReset == <<"reset", "--", "app_dir">>
GitFetchTags == <<"fetch", "--tags", "--force">>

\* The git commands of _vendor_changed up to the finally clause, each with
\* what it ended in.
vendor_changed_steps(sub, scen) ==
    LET git(args, outcome) == Ran(Ev("git", sub, args), outcome)
        at == scen.at
    IN  <<git(GitRepo, IF at = "repo_error" THEN "GitError" ELSE "ok")>>
        \o (IF at = "repo_error" THEN <<>>
            ELSE <<git(GitAdd, IF at = "add_error" THEN "GitError" ELSE "ok")>>)
        \o (IF at \in {"repo_error", "add_error"} THEN <<>>
            ELSE <<git(GitDiffManifest,
                       CASE at = "manifest_error" -> "GitError"
                         [] at = "manifest_changed" -> "nonempty"
                         [] OTHER -> "empty")>>)
        \o (IF at \notin {"tree_error", "tree_changed", "unchanged"} THEN <<>>
            ELSE <<git(GitDiffTree,
                       CASE at = "tree_error" -> "GitError"
                         [] at = "tree_changed" -> "nonempty"
                         [] OTHER -> "empty")>>)

\* A plausible slip: the reset only on the path that finds no change.
_vendor_changed_reset_at_end(sub, scen) ==
    LET reset == Ran(Ev("git", sub, GitReset),
                     IF scen.reset_ok THEN "ok" ELSE "GitError")
    IN  [events |-> vendor_changed_steps(sub, scen)
                    \o (IF scen.at = "unchanged" THEN <<reset>> ELSE <<>>),
         raise |->
             IF scen.at \in {"repo_error", "add_error", "manifest_error",
                             "tree_error"}
                \/ (scen.at = "unchanged" /\ ~scen.reset_ok)
             THEN "GitError" ELSE "none",
         value |-> scen.at \in {"manifest_changed", "tree_changed"}]

\* _vendor_changed: the git commands it runs, and its result. git.Repo and
\* the add run before the try; the reset is the finally clause of the try
\* around the two diffs, and an error of the reset is the one that leaves.
_vendor_changed(sub, scen) ==
    LET in_try == scen.at \notin {"repo_error", "add_error"}
        reset == Ran(Ev("git", sub, GitReset),
                     IF scen.reset_ok THEN "ok" ELSE "GitError")
    IN  [events |-> vendor_changed_steps(sub, scen)
                    \o (IF in_try THEN <<reset>> ELSE <<>>),
         raise |->
             IF scen.at \in {"repo_error", "add_error", "manifest_error",
                             "tree_error"}
                \/ (in_try /\ ~scen.reset_ok)
             THEN "GitError" ELSE "none",
         value |-> scen.at \in {"manifest_changed", "tree_changed"}]

\* ------------------------------------------------------------- input data

Flags == {"gomod-vendor", "gomod-vendor-check", "force-gomod-tidy", "cgo-disable"}

\* The module sub-paths a request can name.
Subpaths == <<<<".">>, <<"s">>>>

\* All sequences over a set, up to a length.
SeqsUpTo(S, n) == UNION {[1..k -> S] : k \in 0..n}

\* The sequences of distinct elements of a sequence q, in q's order (the
\* request's package list holds no path twice), up to a length.
RECURSIVE SubSeqs(_)
SubSeqs(q) ==
    IF q = <<>> THEN {<<>>}
    ELSE LET rest == SubSeqs(Tail(q))
         IN  rest \cup {<<Head(q)>> \o r : r \in rest}

V1 == <<"v", "1">>
V2 == <<"v", "2">>

M_a == ParsedModule(<<"a">>, Some(V1), None)
M_a_to_c == ParsedModule(<<"a">>, Some(V1), Some(Replace(<<"c">>, Some(V2))))
M_c == ParsedModule(<<"c">>, Some(V2), None)
M_b_local == ParsedModule(<<"b">>, Some(V1), Some(Replace(<<".", "/", "l">>, None)))
M_b_up == ParsedModule(<<"b">>, None, Some(Replace(<<".", ".", "/", "o">>, None)))
M_b_abs == ParsedModule(<<"b">>, Some(V1), Some(Replace(<<"/", "o">>, None)))
M_d == ParsedModule(<<"d">>, None, None)

\* The parsed modules the toolchain's output is drawn from.
ParsedModules == {M_a, M_a_to_c, M_c, M_b_local, M_b_up, M_b_abs, M_d}

\* What `go mod download -json` or vendor/modules.txt lists in a request.
DownloadOutputs == {<<>>, <<M_c>>}

\* The modules of the packages `go list -deps all` lists in a request.
PackageModuleOutputs ==
    {<<>>, <<M_a_to_c>>, <<M_b_local>>, <<M_b_up>>, <<M_b_abs>>, <<M_d>>}

\* What _get_golang_version returns: an exact tag or a pseudo-version.
ReifiedVersions == {<<"v", "1", ".", "0", ".", "0">>}

\* ------------------------------------------------------- request handlers

\* _find_missing_gomod_files; status[i] says whether the go.mod of
\* subpaths[i] is a file below the root ("present"), is not there
\* ("missing"), or resolves to a place outside the root ("outside").
GoModStatuses == {"present", "missing", "outside"}

\* The checks of go.mod _find_missing_gomod_files makes, each with what it
\* finds: the loop ends at the first path outside the root.
gomod_checks(subpaths_, status) ==
    [i \in {i \in DOMAIN subpaths_ :
                \A j \in 1..(i - 1) : status[j] # "outside"} |->
        Ran(Ev("exists", i, <<"go.mod">>), status[i])]

\* A plausible slip: the search ends at the first missing go.mod.
_find_missing_gomod_files_first_only(subpaths_, status) ==
    IF \E i \in DOMAIN subpaths_ : status[i] = "outside"
    THEN [events |-> gomod_checks(subpaths_, status),
          raise |-> "PathOutsideRoot", value |-> <<>>]
    ELSE [events |-> gomod_checks(subpaths_, status), raise |-> "none",
          value |-> IF \A i \in DOMAIN subpaths_ : status[i] # "missing"
                    THEN <<>>
                    ELSE <<subpaths_[CHOOSE i \in DOMAIN subpaths_ :
                              /\ status[i] = "missing"
                              /\ \A j \in 1..(i - 1) :
                                    status[j] # "missing"]>>]

_find_missing_gomod_files(subpaths_, status) ==
    IF \E i \in DOMAIN subpaths_ : status[i] = "outside"
    THEN [events |-> gomod_checks(subpaths_, status),
          raise |-> "PathOutsideRoot", value |-> <<>>]
    ELSE [events |-> gomod_checks(subpaths_, status), raise |-> "none",
          value |-> SelectSeq(subpaths_,
                        LAMBDA sp : \E i \in DOMAIN subpaths_ :
                                        subpaths_[i] = sp /\ status[i] = "missing")]

\* The paths _protect_against_symlinks checks, in its order.
GuardedPaths == <<"go.mod", "go.sum", "vendor/modules.txt", "**/*.go">>

\* A plausible slip: the guard without the loop over the *.go files.
_protect_against_symlinks_no_go_files(sub, bad) ==
    [events |-> <<Ran(Ev("guard", sub,
                         IF bad \in {0, 4} THEN SubSeq(GuardedPaths, 1, 3)
                         ELSE SubSeq(GuardedPaths, 1, bad)),
                      IF bad \in {0, 4} THEN "ok" ELSE "PathOutsideRoot")>>,
     raise |-> IF bad \in {0, 4} THEN "none" ELSE "PathOutsideRoot"]

\* _protect_against_symlinks; bad is the index in GuardedPaths of the first
\* path that leads outside the root, 0 when none does. The event holds the
\* paths checked and what the last check ended in.
_protect_against_symlinks(sub, bad) ==
    [events |-> <<Ran(Ev("guard", sub,
                         IF bad = 0 THEN GuardedPaths
                         ELSE SubSeq(GuardedPaths, 1, bad)),
                      IF bad = 0 THEN "ok" ELSE "PathOutsideRoot")>>,
     raise |-> IF bad = 0 THEN "none" ELSE "PathOutsideRoot"]

\* A plausible slip: the directory removed only after a successful clean.
GoCacheTemporaryDirectory_exit_no_finally(outcome) ==
    [events |-> <<Ran(Cmd(0, GoClean, TRUE, exit_env), outcome)>>
                \o (IF outcome = "ok" THEN <<Ev("rmtree", 0, <<tmp_dir>>)>>
                    ELSE <<>>),
     raise |-> _run_gomod_cmd(outcome)]

\* GoCacheTemporaryDirectory.__exit__: `go clean -modcache`, and in the
\* finally clause TemporaryDirectory.__exit__, which removes the directory.
GoCacheTemporaryDirectory_exit(outcome) ==
    [events |-> <<Ran(Cmd(0, GoClean, TRUE, exit_env), outcome),
                  Ev("rmtree", 0, <<tmp_dir>>)>>,
     raise |-> _run_gomod_cmd(outcome)]

\* ------------------------------------------------------------------ state

VARIABLES
    flags,               \* request.flags
    strict,              \* config.gomod_strict_vendor
    n_tries,             \* config.gomod_download_max_tries
    subpaths,            \* the sub-paths of request.gomod_packages
    pc,                  \* the step the request is at
    idx,                 \* the index of the sub-path being resolved
    err,                 \* the exception in flight, "none" when none
    err_at,              \* the step that raised it
    err_names,           \* the names its message or solution gives
    err_tried,           \* the number of tries its message states
    trace,               \* the subprocesses and other effects so far
    ws,                  \* the module-cache workspace: none, live, removed
    vendor,              \* what _should_vendor_deps found at app_dir/vendor
    should_vendor,       \* \
    can_make_changes,    \*  | locals of _resolve_gomod
    downloaded_modules,  \*  |
    package_modules,     \*  |
    all_modules,         \*  |
    main_version,        \* /
    modules,             \* the final module list of fetch_gomod_source
    call,                \* the function examined on its own, with its arguments
    ret                  \* what that function returned or raised

request == <<flags, strict, n_tries, subpaths>>

errs == <<err, err_at, err_names, err_tried>>

locals == <<vendor, should_vendor, can_make_changes, downloaded_modules,
            package_modules, all_modules, main_version>>

\* A function examined on its own; a request examines none.
unit == <<call, ret>>

vars == <<request, pc, idx, errs, trace, ws, locals, modules, unit>>

NoCall == [fn |-> "none"]

NoUnit ==
    /\ call = NoCall
    /\ ret = NoCall

NoLocals ==
    /\ vendor = "unread"
    /\ should_vendor = FALSE
    /\ can_make_changes = FALSE
    /\ downloaded_modules = <<>>
    /\ package_modules = <<>>
    /\ all_modules = <<>>
    /\ main_version = None

NoErrors ==
    /\ err = "none"
    /\ err_at = "none"
    /\ err_names = <<>>
    /\ err_tried = 0

Init ==
    /\ flags \in SUBSET Flags
    /\ strict \in BOOLEAN
    /\ n_tries \in 1..MaxTries
    /\ subpaths \in {q \in SubSeqs(Subpaths) : Len(q) <= MaxSubpaths}
    /\ pc = "start"
    /\ idx = 0
    /\ NoErrors
    /\ trace = <<>>
    /\ ws = "none"
    /\ NoLocals
    /\ modules = <<>>
    /\ NoUnit

\* A plausible slip: the copy of the cache in a finally clause, which an
\* exception runs too.
Raise_through_copy(kind, names, tried) ==
    /\ err' = kind
    /\ err_at' = pc
    /\ err_names' = names
    /\ err_tried' = tried
    /\ pc' = IF ws = "live" THEN "copy" ELSE "done"

\* A plausible slip: the workspace without a with-block, an exception
\* leaving the request at once.
Raise_past_exit(kind, names, tried) ==
    /\ err' = kind
    /\ err_at' = pc
    /\ err_names' = names
    /\ err_tried' = tried
    /\ pc' = "done"

\* An exception leaves the step; where it goes depends on whether the
\* workspace's with-block has been entered.
Raise(kind, names, tried) ==
    /\ err' = kind
    /\ err_at' = pc
    /\ err_names' = names
    /\ err_tried' = tried
    /\ pc' = IF ws = "live" THEN "release" ELSE "done"

Goto(step) ==
    /\ pc' = step
    /\ UNCHANGED errs

run_params_env == resolve_env(flags)

app_dir == AppDir(subpaths[idx])

\* fetch_gomod_source: `go version` (run_cmd with empty params), and the
\* early return when there is nothing to do.
Start ==
    /\ pc = "start"
    /\ \E outcome \in CmdOutcomes :
          /\ trace' = Append(trace, Ran(Cmd(0, GoVersion, FALSE, NoEnv), outcome))
          /\ IF outcome # "ok" THEN Raise(outcome, <<>>, 0)
             ELSE Goto(IF subpaths = <<>> THEN "done" ELSE "find_missing")
    /\ UNCHANGED <<request, unit, idx, ws, locals, modules>>

\* fetch_gomod_source: the go.mod files must be there.
FindMissing ==
    /\ pc = "find_missing"
    /\ \E status \in [DOMAIN subpaths -> GoModStatuses] :
          LET r == _find_missing_gomod_files(subpaths, status)
          IN  /\ trace' = trace \o r.events
              /\ IF r.raise # "none" THEN Raise(r.raise, <<>>, 0)
                 ELSE IF r.value # <<>>
                 THEN Raise("PackageRejected", r.value, 0)
                 ELSE Goto("acquire")
    /\ UNCHANGED <<request, unit, idx, ws, locals, modules>>

\* fetch_gomod_source: entering the with-block of the workspace.
Acquire ==
    /\ pc = "acquire"
    /\ ws' = "live"
    /\ trace' = trace \o <<Ev("mkdtemp", 0, <<tmp_dir>>),
                           Ev("mkdir", 0, <<"gomod_download_dir">>)>>
    /\ idx' = 1
    /\ Goto("guard")
    /\ UNCHANGED <<request, unit, locals, modules>>

\* _resolve_gomod: the symlink guard. go.mod was found below the root by
\* _find_missing_gomod_files, so the guard can only reject a later path.
Guard ==
    /\ pc = "guard"
    /\ \E bad \in {0} \cup (2..Len(GuardedPaths)) :
          LET r == _protect_against_symlinks(idx, bad)
          IN  /\ trace' = trace \o r.events
              /\ IF r.raise # "none" THEN Raise(r.raise, <<>>, 0)
                 ELSE Goto("arbiter")
    /\ modules' = <<>>
    /\ UNCHANGED <<request, unit, idx, ws, locals>>

\* _resolve_gomod: the call of _should_vendor_deps.
Arbiter ==
    /\ pc = "arbiter"
    /\ \E kind \in VendorKinds :
          LET r == _should_vendor_deps(flags, kind, strict)
          IN  /\ vendor' = kind
              /\ IF r.raise # "none"
                 THEN /\ Raise(r.raise, <<>>, 0)
                      /\ UNCHANGED <<should_vendor, can_make_changes>>
                 ELSE /\ should_vendor' = r.value[1]
                      /\ can_make_changes' = r.value[2]
                      /\ Goto("download")
    /\ UNCHANGED <<request, unit, idx, trace, ws, downloaded_modules,
                   package_modules, all_modules, main_version, modules>>

AfterDownload == IF "force-gomod-tidy" \in flags THEN "tidy" ELSE "list_main"

\* A plausible slip: the vendor directory checked only when it may change.
after_vendor_inverted(can_make_changes_) ==
    IF can_make_changes_ THEN "vendor_check" ELSE "parse_vendor"

\* _vendor_deps after `go mod vendor`: `not can_make_changes and
\* _vendor_changed(app_dir)` calls the detector only when no change is
\* allowed.
after_vendor(can_make_changes_) ==
    IF can_make_changes_ THEN "parse_vendor" ELSE "vendor_check"

\* _resolve_gomod / _vendor_deps: the download step, `go mod vendor` or
\* `go mod download -json`, through _run_download_cmd.
Download ==
    /\ pc = "download"
    /\ \E scen \in DownloadScenarios(n_tries), out \in DownloadOutputs :
          LET argv == IF should_vendor THEN GoModVendor ELSE GoModDownload
              r == _run_download_cmd(Cmd(idx, argv, TRUE, run_params_env),
                                     n_tries, scen)
          IN  /\ trace' = trace \o r.events
              /\ IF r.raise # "none"
                 THEN /\ Raise(r.raise, <<>>, r.tried)
                      /\ UNCHANGED downloaded_modules
                 ELSE IF should_vendor
                 THEN /\ Goto(after_vendor(can_make_changes))
                      /\ UNCHANGED downloaded_modules
                 ELSE /\ downloaded_modules' = out
                      /\ Goto(AfterDownload)
    /\ UNCHANGED <<request, unit, idx, ws, vendor, should_vendor, can_make_changes,
                   package_modules, all_modules, main_version, modules>>

\* _vendor_deps: `not can_make_changes and _vendor_changed(app_dir)`.
VendorCheck ==
    /\ pc = "vendor_check"
    /\ \E scen \in VendorChangedScenarios :
          LET r == _vendor_changed(idx, scen)
          IN  /\ trace' = trace \o r.events
              /\ IF r.raise # "none" THEN Raise(r.raise, <<>>, 0)
                 ELSE IF r.value THEN Raise("PackageRejected", <<>>, 0)
                 ELSE Goto("parse_vendor")
    /\ UNCHANGED <<request, unit, idx, ws, locals, modules>>

\* _vendor_deps: _parse_vendor reads vendor/modules.txt.
ParseVendor ==
    /\ pc = "parse_vendor"
    /\ \E well_formed \in BOOLEAN, out \in DownloadOutputs :
          IF well_formed
          THEN /\ trace' = Append(trace, Ev("parse_vendor", idx, <<>>))
               /\ downloaded_modules' = out
               /\ Goto(AfterDownload)
          ELSE /\ trace' = Append(trace, Ran(Ev("parse_vendor", idx, <<>>),
                                             "UnexpectedFormat"))
               /\ Raise("UnexpectedFormat", <<>>, 0)
               /\ UNCHANGED downloaded_modules
    /\ UNCHANGED <<request, unit, idx, ws, vendor, should_vendor, can_make_changes,
                   package_modules, all_modules, main_version, modules>>

\* A plausible slip: a command that exits non-zero is run a second time.
RunGomodCmd_once_more(argv, next_step) ==
    \E outcome \in CmdOutcomes :
        /\ trace' = trace
               \o <<Ran(Cmd(idx, argv, TRUE, run_params_env), outcome)>>
               \o (IF outcome = "CalledProcessError"
                   THEN <<Cmd(idx, argv, TRUE, run_params_env)>> ELSE <<>>)
        /\ IF outcome = "OtherError"
           THEN Raise(outcome, <<>>, 0)
           ELSE Goto(next_step)

\* One command through _run_gomod_cmd, at sub-path idx, with run_params.
RunGomodCmd(argv, next_step) ==
    \E outcome \in CmdOutcomes :
        /\ trace' = Append(trace,
                        Ran(Cmd(idx, argv, TRUE, run_params_env), outcome))
        /\ IF _run_gomod_cmd(outcome) # "none"
           THEN Raise(_run_gomod_cmd(outcome), <<>>, 0)
           ELSE Goto(next_step)

\* _resolve_gomod: `go mod tidy` when the force-gomod-tidy flag is set.
Tidy ==
    /\ pc = "tidy"
    /\ RunGomodCmd(GoModTidy, "list_main")
    /\ UNCHANGED <<request, unit, idx, ws, locals, modules>>

\* _resolve_gomod: `go list -e [-mod readonly] -m`.
ListMain ==
    /\ pc = "list_main"
    /\ RunGomodCmd(go_list(should_vendor) \o <<"-m">>, "reify")
    /\ UNCHANGED <<request, unit, idx, ws, locals, modules>>

\* _resolve_gomod: _get_golang_version(main_module_name, app_dir,
\* update_tags=True) fetches the tags and returns a version.
Reify ==
    /\ pc = "reify"
    /\ \E fetched \in BOOLEAN, v \in ReifiedVersions :
          IF fetched
          THEN /\ trace' = Append(trace, Ev("git", idx, GitFetchTags))
               /\ main_version' = Some(v)
               /\ Goto("list_all")
          ELSE /\ trace' = Append(trace, Ran(Ev("git", idx, GitFetchTags),
                                             "GitError"))
               /\ Raise("FetchError", <<>>, 0)
               /\ UNCHANGED main_version
    /\ UNCHANGED <<request, unit, idx, ws, vendor, should_vendor, can_make_changes,
                   downloaded_modules, package_modules, all_modules, modules>>

\* _resolve_gomod: go_list_deps("all"), and the merge of the modules of its
\* packages with the downloaded modules.
ListAll ==
    /\ pc = "list_all"
    /\ \E out \in PackageModuleOutputs :
          /\ RunGomodCmd(go_list_deps(should_vendor, "all"), "list_packages")
          /\ IF pc' = "list_packages"
             THEN /\ package_modules' = out
                  /\ all_modules' =
                         _deduplicate_resolved_modules(out, downloaded_modules)
             ELSE UNCHANGED <<package_modules, all_modules>>
    /\ UNCHANGED <<request, unit, idx, ws, vendor, should_vendor, can_make_changes,
                   downloaded_modules, main_version, modules>>

\* _resolve_gomod: go_list_deps("./...").
ListPackages ==
    /\ pc = "list_packages"
    /\ RunGomodCmd(go_list_deps(should_vendor, "./..."), "validate")
    /\ UNCHANGED <<request, unit, idx, ws, locals, modules>>

\* _resolve_gomod: _validate_local_replacements, and the return.
Validate ==
    /\ pc = "validate"
    /\ LET r == _validate_local_replacements(all_modules, app_dir)
       IN  IF r.raise # "none" THEN Raise(r.raise, r.names, 0)
           ELSE Goto("create")
    /\ UNCHANGED <<request, unit, idx, trace, ws, locals, modules>>

\* fetch_gomod_source: the canonical modules of the resolved sub-path, and
\* the next turn of the loop. The locals of _resolve_gomod are gone.
Create ==
    /\ pc = "create"
    /\ \E reified \in ReifiedVersions :
          LET parsed_main == [ParsedModule(<<"m">>, main_version, None)
                              EXCEPT !.main = TRUE]
              main == _create_main_module_from_parsed_data(
                          subpaths[idx], parsed_main)
              rest == _create_modules_from_parsed_data(
                          main.value.real_path, app_dir, all_modules, reified)
              raised == IF main.raise # "none" THEN main.raise ELSE rest.raise
          IN  IF raised # "none"
              THEN /\ Raise(raised, <<>>, 0)
                   /\ UNCHANGED <<modules, idx, all_modules>>
              ELSE /\ modules' = <<main.value>> \o rest.value
                   /\ all_modules' = <<>>
                   /\ IF idx < Len(subpaths)
                      THEN idx' = idx + 1 /\ Goto("guard")
                      ELSE idx' = idx /\ Goto("copy")
    /\ vendor' = "unread"
    /\ should_vendor' = FALSE
    /\ can_make_changes' = FALSE
    /\ downloaded_modules' = <<>>
    /\ package_modules' = <<>>
    /\ main_version' = None
    /\ UNCHANGED <<request, unit, trace, ws>>

\* fetch_gomod_source: after the loop, a copy of the module cache that
\* skips the test for the flags.
copy_cache_always(flags_, cache_exists) ==
    IF cache_exists
    THEN <<Ran(Ev("exists", 0, <<"pkg/mod">>), "present"),
           Ev("copytree", 0, <<"pkg/mod">>)>>
    ELSE <<Ran(Ev("exists", 0, <<"pkg/mod">>), "missing")>>

\* fetch_gomod_source: after the loop, the module cache (pkg/mod of the
\* workspace) is copied to the download directory if no vendor flag is set
\* and the cache exists.
copy_cache(flags_, cache_exists) ==
    IF "gomod-vendor-check" \in flags_ \/ "gomod-vendor" \in flags_ THEN <<>>
    ELSE IF cache_exists
    THEN <<Ran(Ev("exists", 0, <<"pkg/mod">>), "present"),
           Ev("copytree", 0, <<"pkg/mod">>)>>
    ELSE <<Ran(Ev("exists", 0, <<"pkg/mod">>), "missing")>>

\* fetch_gomod_source: the end of the with-block's body.
Copy ==
    /\ pc = "copy"
    /\ \E cache_exists \in BOOLEAN :
          trace' = trace \o copy_cache(flags, cache_exists)
    /\ Goto("release")
    /\ UNCHANGED <<request, unit, idx, ws, locals, modules>>

\* fetch_gomod_source: leaving the with-block, normally or by an exception.
\* A GoModError of `go clean` replaces the exception in flight.
Release ==
    /\ pc = "release"
    /\ \E outcome \in CmdOutcomes :
          LET r == GoCacheTemporaryDirectory_exit(outcome)
          IN  /\ trace' = trace \o r.events
              /\ IF r.raise # "none"
                 THEN /\ err' = r.raise
                      /\ err_at' = "release"
                      /\ err_names' = <<>>
                      /\ err_tried' = 0
                 ELSE UNCHANGED errs
    /\ ws' = "removed"
    /\ pc' = "done"
    /\ UNCHANGED <<request, unit, idx, locals, modules>>

Next ==
    \/ Start
    \/ FindMissing
    \/ Acquire
    \/ Guard
    \/ Arbiter
    \/ Download
    \/ VendorCheck
    \/ ParseVendor
    \/ Tidy
    \/ ListMain
    \/ Reify
    \/ ListAll
    \/ ListPackages
    \/ Validate
    \/ Create
    \/ Copy
    \/ Release

Spec == Init /\ [][Next]_vars

\* ------------------------------------------- the download invoker alone

\* _run_download_cmd called for one sub-path, with every configured number
\* of tries; whether it runs `go mod vendor` or `go mod download` follows
\* from the flags as in _resolve_gomod.
InitDownload ==
    /\ flags \in SUBSET Flags
    /\ strict = FALSE
    /\ n_tries \in 1..MaxDownloadTries
    /\ subpaths = <<<<".">>>>
    /\ pc = "download"
    /\ idx = 1
    /\ NoErrors
    /\ trace = <<>>
    /\ ws = "live"
    /\ vendor \in VendorKinds
    /\ should_vendor = _should_vendor_deps(flags, vendor, strict).value[1]
    /\ can_make_changes = _should_vendor_deps(flags, vendor, strict).value[2]
    /\ downloaded_modules = <<>>
    /\ package_modules = <<>>
    /\ all_modules = <<>>
    /\ main_version = None
    /\ modules = <<>>
    /\ NoUnit

NextDownload == Download

SpecDownload == InitDownload /\ [][NextDownload]_vars

\* ------------------------------------- merge and module construction alone

\* The merge of _resolve_gomod on its own inputs.
Merge ==
    /\ pc = "merge"
    /\ all_modules' =
           _deduplicate_resolved_modules(package_modules, downloaded_modules)
    /\ Goto("validate")
    /\ UNCHANGED <<request, unit, idx, trace, ws, vendor, should_vendor,
                   can_make_changes, downloaded_modules, package_modules,
                   main_version, modules>>

\* The data steps of one resolution (merge, validation, canonical modules)
\* on every pair of a package-modules-set and a downloaded-set.
InitModules ==
    /\ flags = {}
    /\ strict = FALSE
    /\ n_tries = 1
    /\ subpaths \in {<<Subpaths[i]>> : i \in DOMAIN Subpaths}
    /\ pc = "merge"
    /\ idx = 1
    /\ NoErrors
    /\ trace = <<>>
    /\ ws = "live"
    /\ vendor = "absent"
    /\ should_vendor = FALSE
    /\ can_make_changes = FALSE
    /\ downloaded_modules \in SeqsUpTo(ParsedModules, MaxMods)
    /\ package_modules \in SeqsUpTo(ParsedModules, MaxMods)
    /\ all_modules = <<>>
    /\ main_version \in {Some(v) : v \in ReifiedVersions}
    /\ modules = <<>>
    /\ NoUnit

NextModules ==
    \/ Merge
    \/ Validate
    \/ Create

SpecModules == InitModules /\ [][NextModules]_vars

\* ------------------------------------------------------- numbers in strings

Digits == <<"0", "1", "2", "3", "4", "5", "6", "7", "8", "9">>

\* str.isdigit() of one character (ASCII digits).
IsDigit(c) == \E i \in 1..10 : Digits[i] = c

DigitValue(c) == (CHOOSE i \in 1..10 : Digits[i] = c) - 1

\* int(s) of a non-empty string of digits.
RECURSIVE int(_)
int(s) ==
    IF s = <<>> THEN 0
    ELSE int(SubSeq(s, 1, Len(s) - 1)) * 10 + DigitValue(s[Len(s)])

\* str(n) of a natural number.
RECURSIVE str(_)
str(n) ==
    IF n < 10 THEN <<Digits[n + 1]>>
    ELSE str(n \div 10) \o <<Digits[(n % 10) + 1]>>

\* The index of the first c in s, 0 if there is none.
RECURSIVE find(_, _, _)
find(s, c, i) ==
    IF i > Len(s) THEN 0
    ELSE IF s[i] = c THEN i
    ELSE find(s, c, i + 1)

\* s.split(c) for a one-character separator.
RECURSIVE split_on(_, _)
split_on(s, c) ==
    LET i == find(s, c, 1)
    IN  IF i = 0 THEN <<s>>
        ELSE <<SubSeq(s, 1, i - 1)>> \o split_on(SubSeq(s, i + 1, Len(s)), c)

\* str.replace(old, new), old not empty: every occurrence, left to right.
RECURSIVE replace(_, _, _)
replace(s, old, new) ==
    IF Len(s) < Len(old) THEN s
    ELSE IF startswith(s, old)
         THEN new \o replace(SubSeq(s, Len(old) + 1, Len(s)), old, new)
    ELSE <<Head(s)>> \o replace(Tail(s), old, new)

\* ------------------------------------------------------------------ semver

\* The letters that occur in the tags considered, in ASCII order.
Letters == <<"a", "b", "c", "r", "s", "v", "x">>

IsLetter(c) == \E i \in DOMAIN Letters : Letters[i] = c

\* A numeric identifier of semver: digits, no leading zero.
IsNumericId(s) ==
    /\ s # <<>>
    /\ \A i \in DOMAIN s : IsDigit(s[i])
    /\ (Len(s) > 1 => s[1] # "0")

\* An identifier of a prerelease: numeric, or alphanumerics and hyphens with
\* a non-digit among them.
IsPrereleaseId(s) ==
    \/ IsNumericId(s)
    \/ /\ s # <<>>
       /\ \A i \in DOMAIN s : IsDigit(s[i]) \/ IsLetter(s[i]) \/ s[i] = "-"
       /\ \E i \in DOMAIN s : ~IsDigit(s[i])

\* An identifier of the build metadata.
IsBuildId(s) ==
    /\ s # <<>>
    /\ \A i \in DOMAIN s : IsDigit(s[i]) \/ IsLetter(s[i]) \/ s[i] = "-"

\* semver.Version
Version(major, minor, patch, prerelease, build) ==
    [major |-> major, minor |-> minor, patch |-> patch,
     prerelease |-> prerelease, build |-> build]

\* semver.Version.parse: major.minor.patch[-prerelease][+build], or
\* ValueError.
Version_parse(s) ==
    LET plus == find(s, "+", 1)
        front == IF plus = 0 THEN s ELSE SubSeq(s, 1, plus - 1)
        build == IF plus = 0 THEN None ELSE Some(SubSeq(s, plus + 1, Len(s)))
        dash == find(front, "-", 1)
        core == IF dash = 0 THEN front ELSE SubSeq(front, 1, dash - 1)
        pre == IF dash = 0 THEN None
               ELSE Some(SubSeq(front, dash + 1, Len(front)))
        nums == split_on(core, ".")
        well_formed ==
            /\ Len(nums) = 3
            /\ \A i \in 1..3 : IsNumericId(nums[i])
            /\ pre # None
                   => \A id \in {split_on(pre[1], ".")[i] :
                                    i \in DOMAIN split_on(pre[1], ".")} :
                          IsPrereleaseId(id)
            /\ build # None
                   => \A id \in {split_on(build[1], ".")[i] :
                                    i \in DOMAIN split_on(build[1], ".")} :
                          IsBuildId(id)
    IN  IF well_formed
        THEN Returned(Version(int(nums[1]), int(nums[2]), int(nums[3]),
                              pre, build))
        ELSE Raised("ValueError")

\* str(Version)
Version_str(v) ==
    str(v.major) \o <<".">> \o str(v.minor) \o <<".">> \o str(v.patch)
    \o (IF v.prerelease = None THEN <<>> ELSE <<"-">> \o v.prerelease[1])
    \o (IF v.build = None THEN <<>> ELSE <<"+">> \o v.build[1])

\* Version.bump_patch of a version without prerelease.
bump_patch(v) == Version(v.major, v.minor, v.patch + 1, None, None)

\* The place of a character in ASCII order, among the characters of
\* prerelease identifiers: "-", then digits, then letters.
Ord(c) ==
    IF c = "-" THEN 0
    ELSE IF IsDigit(c) THEN 1 + DigitValue(c)
    ELSE 10 + (CHOOSE i \in DOMAIN Letters : Letters[i] = c)

\* a < b for strings, character by character.
RECURSIVE str_less(_, _)
str_less(a, b) ==
    IF b = <<>> THEN FALSE
    ELSE IF a = <<>> THEN TRUE
    ELSE IF a[1] # b[1] THEN Ord(a[1]) < Ord(b[1])
    ELSE str_less(Tail(a), Tail(b))

\* One identifier of a prerelease before another: numeric ones by value and
\* before the others, the others as strings.
id_less(a, b) ==
    IF IsNumericId(a) /\ IsNumericId(b) THEN int(a) < int(b)
    ELSE IF IsNumericId(a) THEN TRUE
    ELSE IF IsNumericId(b) THEN FALSE
    ELSE str_less(a, b)

\* A prerelease before another: by the first identifier that differs, a
\* shorter list before a longer one it begins.
RECURSIVE ids_less(_, _)
ids_less(a, b) ==
    IF b = <<>> THEN FALSE
    ELSE IF a = <<>> THEN TRUE
    ELSE IF a[1] # b[1] THEN id_less(a[1], b[1])
    ELSE ids_less(Tail(a), Tail(b))

\* Version.__gt__: precedence by major, minor, patch, then a release above
\* its prereleases; the build metadata is not compared.
Version_gt(a, b) ==
    IF a.major # b.major THEN a.major > b.major
    ELSE IF a.minor # b.minor THEN a.minor > b.minor
    ELSE IF a.patch # b.patch THEN a.patch > b.patch
    ELSE IF a.prerelease = None THEN b.prerelease # None
    ELSE IF b.prerelease = None THEN FALSE
    ELSE ids_less(split_on(b.prerelease[1], "."), split_on(a.prerelease[1], "."))

\* ----------------------------------------------------- the version reifier

\* What the git repository of the request holds for one commit: the names
\* of the tags that point at it, and of the tags on the commits before it.
Repo(on_commit, before) == [on_commit |-> on_commit, before |-> before]

\* git.objects.Commit
Commit(hexsha, committed_date) ==
    [hexsha |-> hexsha, committed_date |-> committed_date]

GitTagPointsAt == <<"tag", "--points-at", "commit">>
GitForEachRef ==
    <<"for-each-ref", "--format", "%(refname:lstrip=2)", "refs/tags",
      "--merged", "commit">>

\* _get_golang_version: re.match(r"(?:.+/v)(?P<major_version>\d+)$") and
\* int() of the group, None without a match.
module_major_version(module_name) ==
    LET n == Len(module_name)
        ks == {k \in 2..(n - 2) :
                  /\ module_name[k] = "/"
                  /\ module_name[k + 1] = "v"
                  /\ \A j \in (k + 2)..n : IsDigit(module_name[j])}
    IN  IF ks = {} THEN None
        ELSE Some(int(SubSeq(module_name, (CHOOSE k \in ks : TRUE) + 2, n)))

\* _get_golang_version: "if module_major_version:" is false of None and
\* of 0.
major_versions_to_try(major) ==
    IF major # None /\ major[1] # 0 THEN <<major[1]>> ELSE <<1, 0>>

\* _get_golang_version: the fetch of the tags, an error of which is logged
\* and nothing more.
fetch_tags_warn_only(update_tags, fetch_ok) ==
    IF ~update_tags THEN [events |-> <<>>, raise |-> "none"]
    ELSE [events |-> <<Ran(Ev("git", 0, GitFetchTags),
                           IF fetch_ok THEN "ok" ELSE "GitError")>>,
          raise |-> "none"]

\* _get_golang_version: repo.remote().fetch(force=True, tags=True) when
\* update_tags, any exception of which becomes FetchError.
fetch_tags(update_tags, fetch_ok) ==
    IF ~update_tags THEN [events |-> <<>>, raise |-> "none"]
    ELSE IF fetch_ok
    THEN [events |-> <<Ev("git", 0, GitFetchTags)>>, raise |-> "none"]
    ELSE [events |-> <<Ran(Ev("git", 0, GitFetchTags), "GitError")>>,
          raise |-> "FetchError"]

\* _get_semantic_version_from_tag
_get_semantic_version_from_tag(tag_name, subpath) ==
    Version_parse(
        IF subpath # None /\ subpath[1] # <<>>
        THEN replace(tag_name, subpath[1] \o <<"/", "v">>, <<>>)
        ELSE SubSeq(tag_name, 2, Len(tag_name)))

\* _get_highest_semver_tag: one turn of the loop over the filtered tags.
\* highest is None or the tag kept so far with its version; parsed is what
\* _get_semantic_version_from_tag made of tag_name.
keep_highest(highest, tag_name, parsed, major_version) ==
    IF parsed.raise # "none" THEN highest
    ELSE IF parsed.value.major # major_version THEN highest
    ELSE IF \/ highest = None
            \/ Version_gt(parsed.value, highest[1].semver)
         THEN Some([tag |-> tag_name, semver |-> parsed.value])
    ELSE highest

\* _get_highest_semver_tag: the loop over the filtered tags.
RECURSIVE highest_semver(_, _, _, _)
highest_semver(filtered_tags, major_version, subpath, highest) ==
    IF filtered_tags = <<>> THEN highest
    ELSE highest_semver(
             Tail(filtered_tags), major_version, subpath,
             keep_highest(highest, Head(filtered_tags),
                          _get_semantic_version_from_tag(Head(filtered_tags),
                                                         subpath),
                          major_version))

\* _get_highest_semver_tag: the tag returned for what the loop kept.
highest_tag(highest) ==
    IF highest = None THEN None ELSE Some(highest[1].tag)

\* _get_highest_semver_tag: the git command that lists the tags, and the
\* name of the highest tag of the major version among those with the prefix,
\* None if there is none. failing is the git command that fails, if any.
_get_highest_semver_tag(repo, major_version, all_reachable, subpath, failing) ==
    LET cmd == IF all_reachable THEN GitForEachRef ELSE GitTagPointsAt
        tag_names == IF all_reachable THEN repo.on_commit \o repo.before
                     ELSE repo.on_commit
        prefix == IF subpath # None /\ subpath[1] # <<>>
                  THEN subpath[1] \o <<"/", "v">> ELSE <<"v">>
        filtered_tags == SelectSeq(tag_names, LAMBDA t : startswith(t, prefix))
    IN  IF failing = cmd[1]
        THEN [events |-> <<Ran(Ev("git", 0, cmd), "GitCommandError")>>,
              raise |-> "GitCommandError", value |-> None]
        ELSE [events |-> <<Ev("git", 0, cmd)>>, raise |-> "none",
              value |-> highest_tag(highest_semver(filtered_tags,
                                                   major_version, subpath,
                                                   None))]

\* datetime.utcfromtimestamp(t).strftime("%Y%m%d%H%M%S"), for a time within
\* January 1970.
strftime(t) ==
    LET two(n) == IF n < 10 THEN <<"0">> \o str(n) ELSE str(n)
    IN  <<"1", "9", "7", "0", "0", "1">> \o two(t \div 86400 + 1)
        \o two((t % 86400) \div 3600) \o two((t % 3600) \div 60)
        \o two(t % 60)

\* _get_golang_pseudo_version, the patch of the pseudo-base left as it is.
_get_golang_pseudo_version_no_bump(commit, tag, major, subpath) ==
    LET commit_timestamp == strftime(commit.committed_date)
        commit_hash == SubSeq(commit.hexsha, 1, 12)
        tag_semantic_version == _get_semantic_version_from_tag(tag[1], subpath)
    IN  IF tag = None
        THEN Returned(<<"v">> \o (IF major # None /\ major[1] # 0
                                  THEN str(major[1]) ELSE <<"0">>)
                      \o <<".", "0", ".", "0", "-">> \o commit_timestamp
                      \o <<"-">> \o commit_hash)
        ELSE IF tag_semantic_version.raise # "none" THEN tag_semantic_version
        ELSE Returned(<<"v">> \o Version_str(tag_semantic_version.value)
                      \o (IF tag_semantic_version.value.prerelease # None
                          THEN <<".">> ELSE <<"-">>)
                      \o <<"0", ".">> \o commit_timestamp
                      \o <<"-">> \o commit_hash)

\* _get_golang_pseudo_version: tag is None or the name of the pseudo-base.
_get_golang_pseudo_version(commit, tag, major, subpath) ==
    LET commit_timestamp == strftime(commit.committed_date)
        commit_hash == SubSeq(commit.hexsha, 1, 12)
        tag_semantic_version == _get_semantic_version_from_tag(tag[1], subpath)
        with_prerelease ==
            /\ tag_semantic_version.value.prerelease # None
            /\ tag_semantic_version.value.prerelease[1] # <<>>
        version_seperator == IF with_prerelease THEN <<".">> ELSE <<"-">>
        pseudo_semantic_version ==
            IF with_prerelease THEN tag_semantic_version.value
            ELSE bump_patch(tag_semantic_version.value)
    IN  IF tag = None
        THEN Returned(<<"v">> \o (IF major # None /\ major[1] # 0
                                  THEN str(major[1]) ELSE <<"0">>)
                      \o <<".", "0", ".", "0", "-">> \o commit_timestamp
                      \o <<"-">> \o commit_hash)
        ELSE IF tag_semantic_version.raise # "none" THEN tag_semantic_version
        ELSE Returned(<<"v">> \o Version_str(pseudo_semantic_version)
                      \o version_seperator \o <<"0", ".">>
                      \o commit_timestamp \o <<"-">> \o commit_hash)

\* _get_golang_version: one of its two loops over the major versions, up to
\* the first for which _get_highest_semver_tag finds a tag. major is the
\* major version the loop stopped at.
RECURSIVE first_tagged(_, _, _, _, _, _)

\* One turn of that loop, r being what _get_highest_semver_tag did.
tagged_or_next(r, repo, majors, all_reachable, subpath, failing, events) ==
    IF r.raise # "none" \/ r.value # None
    THEN [events |-> events \o r.events, raise |-> r.raise,
          value |-> r.value, major |-> Some(Head(majors))]
    ELSE first_tagged(repo, Tail(majors), all_reachable, subpath, failing,
                      events \o r.events)

first_tagged(repo, majors, all_reachable, subpath, failing, events) ==
    IF majors = <<>>
    THEN [events |-> events, raise |-> "none", value |-> None, major |-> None]
    ELSE tagged_or_next(
             _get_highest_semver_tag(repo, Head(majors), all_reachable,
                                     subpath, failing),
             repo, majors, all_reachable, subpath, failing, events)

\* What _get_golang_version ends in, with its steps and the major versions
\* it tried.
reified(events, raise, value, tries) ==
    [events |-> events, raise |-> raise, value |-> value,
     major_versions_to_try |-> tries]

\* _get_golang_version: the return of a pseudo-version.
pseudo_versioned(events, pseudo_version, tries) ==
    reified(events, pseudo_version.raise,
            IF pseudo_version.raise = "none"
            THEN Some(pseudo_version.value) ELSE None,
            tries)

\* _get_golang_version from the end of its second loop: the pseudo-version
\* on the pseudo-base found, or the fall-back without one.
from_pseudo_base(pseudo_base_tag, major, tries, subpath, commit) ==
    IF pseudo_base_tag.raise # "none"
    THEN reified(pseudo_base_tag.events, pseudo_base_tag.raise, None, tries)
    ELSE IF pseudo_base_tag.value # None
    THEN pseudo_versioned(
             pseudo_base_tag.events,
             _get_golang_pseudo_version(commit, pseudo_base_tag.value,
                                        pseudo_base_tag.major, subpath),
             tries)
    ELSE pseudo_versioned(
             pseudo_base_tag.events,
             _get_golang_pseudo_version(commit, None, major, subpath),
             tries)

\* _get_golang_version from the end of its first loop: the tag on the
\* commit without the subpath, or the second loop.
from_tag_on_commit(tag_on_commit, major, tries, subpath, commit, repo, failing) ==
    IF tag_on_commit.raise # "none"
    THEN reified(tag_on_commit.events, tag_on_commit.raise, None, tries)
    ELSE IF tag_on_commit.value # None
    THEN reified(tag_on_commit.events, "none",
                 Some(IF subpath = None \/ subpath[1] = <<>>
                      THEN tag_on_commit.value[1]
                      ELSE replace(tag_on_commit.value[1],
                                   subpath[1] \o <<"/">>, <<>>)),
                 tries)
    ELSE from_pseudo_base(
             first_tagged(repo, tries, TRUE, subpath, failing,
                          tag_on_commit.events),
             major, tries, subpath, commit)

\* _get_golang_version from the fetch of the tags on.
from_fetch(fetched, major, tries, subpath, commit, repo, failing) ==
    IF fetched.raise # "none"
    THEN reified(fetched.events, fetched.raise, None, <<>>)
    ELSE from_tag_on_commit(
             first_tagged(repo, tries, FALSE, subpath, failing,
                          fetched.events),
             major, tries, subpath, commit, repo, failing)

\* _get_golang_version of a module of the repository at a commit. subpath
\* is None for a module at the root of the repository (app_dir.path ==
\* app_dir.root). scen says whether the fetch works and which listing of
\* tags fails.
_get_golang_version(module_name, subpath, commit, update_tags, repo, scen) ==
    from_fetch(fetch_tags(update_tags, scen.fetch_ok),
               module_major_version(module_name),
               major_versions_to_try(module_major_version(module_name)),
               subpath, commit, repo, scen.failing)

\* ---------------------------------------------- functions on their own

\* The request at rest, while one function is examined on its own.
Idle ==
    /\ flags = {}
    /\ strict = FALSE
    /\ n_tries = 1
    /\ subpaths = <<>>
    /\ pc = "unit"
    /\ idx = 0
    /\ NoErrors
    /\ trace = <<>>
    /\ ws = "none"
    /\ NoLocals
    /\ modules = <<>>

\* The function named fn is called with the arguments of call, once.
Called(fn) ==
    /\ call.fn = fn
    /\ ret = NoCall
    /\ UNCHANGED <<request, pc, idx, errs, trace, ws, locals, modules, call>>

\* --------------------------------------------------- the reifier's inputs

\* The number of tags that point at the commit, at most.
MaxTags == 2

T_v100 == <<"v", "1", ".", "0", ".", "0">>
T_v120 == <<"v", "1", ".", "2", ".", "0">>
T_v090 == <<"v", "0", ".", "9", ".", "0">>
T_v200 == <<"v", "2", ".", "0", ".", "0">>
T_v130rc == <<"v", "1", ".", "3", ".", "0", "-", "r", "c">>
T_v1x == <<"v", "1", ".", "x">>
T_s110 == <<"s", "/", "v", "1", ".", "1", ".", "0">>
T_s120as == <<"s", "/", "v", "1", ".", "2", ".", "0", "-", "a", "s", "/", "v">>

TagNames ==
    {T_v100, T_v120, T_v090, T_v200, T_v130rc, T_v1x, T_s110, T_s120as}

\* The tags on the commits before the commit.
TagsBefore == {<<>>, <<T_v100>>, <<T_v090>>, <<T_v200>>, <<T_v130rc>>, <<T_s110>>}

Repos ==
    {Repo(on_commit, before) :
        on_commit \in SeqsUpTo(TagNames, MaxTags), before \in TagsBefore}

Hexsha ==
    <<"0", "1", "2", "3", "4", "5", "6", "7", "8", "9", "a", "b", "c", "d">>

\* 1970-01-01 00:00:00 and 1970-01-12 13:46:39, UTC.
Commits == {Commit(Hexsha, 0), Commit(Hexsha, 999999)}

N_m == <<"m">>
N_m_v0 == <<"m", "/", "v", "0">>
N_m_v1 == <<"m", "/", "v", "1">>
N_m_v2 == <<"m", "/", "v", "2">>
N_m_s == <<"m", "/", "s">>

\* A module at the root of the repository, or in its directory s.
ReifiedModules ==
    {[name |-> n, subpath |-> None] : n \in {N_m, N_m_v0, N_m_v1, N_m_v2}}
    \cup {[name |-> N_m_s, subpath |-> Some(<<"s">>)]}

\* update_tags with what git does: all works, the fetch fails, or one of
\* the two listings of tags fails.
ReifierScenarios ==
    {[update_tags |-> u, fetch_ok |-> f, failing |-> g] :
        u \in BOOLEAN, f \in BOOLEAN,
        g \in {"none", GitTagPointsAt[1], GitForEachRef[1]}}

\* The calls of _get_golang_version: fetch_ok matters only with
\* update_tags, and one thing fails at most.
GetGolangVersionCalls ==
    {[fn |-> "_get_golang_version", module |-> m, commit |-> c, scen |-> s,
      repo |-> r] :
        m \in ReifiedModules, c \in Commits, r \in Repos,
        s \in {s \in ReifierScenarios :
                  /\ ~s.update_tags => s.fetch_ok
                  /\ ~s.fetch_ok => s.failing = "none"}}

\* The calls of _get_golang_pseudo_version: without a tag, or with a tag
\* that _get_highest_semver_tag can return for the subpath.
GetGolangPseudoVersionCalls ==
    {[fn |-> "_get_golang_pseudo_version", commit |-> c, tag |-> t,
      major |-> n, subpath |-> p] :
        c \in Commits, n \in {None, Some(0), Some(1), Some(2)},
        p \in {None, Some(<<"s">>)},
        t \in {None} \cup {Some(x) : x \in TagNames}}

\* ------------------------------------------------- the reifier on its own

GetGolangVersion ==
    /\ Called("_get_golang_version")
    /\ ret' = _get_golang_version(call.module.name, call.module.subpath,
                                  call.commit, call.scen.update_tags,
                                  call.repo, call.scen)

GetGolangPseudoVersion ==
    /\ Called("_get_golang_pseudo_version")
    /\ ret' = _get_golang_pseudo_version(call.commit, call.tag, call.major,
                                         call.subpath)

InitReifier ==
    /\ Idle
    /\ ret = NoCall
    /\ call \in GetGolangVersionCalls \cup
                {c \in GetGolangPseudoVersionCalls :
                    c.tag # None =>
                        _get_highest_semver_tag(
                            Repo(<<c.tag[1]>>, <<>>),
                            _get_semantic_version_from_tag(
                                c.tag[1], c.subpath).value.major,
                            FALSE, c.subpath, "none").value = c.tag}

NextReifier == GetGolangVersion \/ GetGolangPseudoVersion

SpecReifier == InitReifier /\ [][NextReifier]_vars

\* ---------------------------------------------------------------- packages

\* ParsedPackage; module is None or a ParsedModule.
ParsedPackage(import_path, standard, module) ==
    [import_path |-> import_path, standard |-> standard, module |-> module]

\* Package
Package(relative_path, module) ==
    [relative_path |-> relative_path, module |-> module]

\* StandardPackage
StandardPackage(name) == [name |-> name]

\* Package.name
Package_name(p) ==
    IF p.relative_path # <<>>
    THEN p.module.name \o <<"/">> \o p.relative_path
    ELSE p.module.name

\* Package.real_path
Package_real_path(p) ==
    IF p.relative_path # <<>>
    THEN p.module.real_path \o <<"/">> \o p.relative_path
    ELSE p.module.real_path

\* Package.purl: the arguments of PackageURL.
Package_purl(p) ==
    [type |-> "golang", name |-> Package_real_path(p),
     version |-> p.module.version, qualifiers |-> "package"]

\* Path(s).parts of a relative path: empty segments and "." are dropped.
parts(s) == SelectSeq(Segments(s), LAMBDA x : x # <<".">>)

\* Path(path).is_relative_to(other)
is_relative_to(path, other) == IsPrefixSeq(parts(other), parts(path))

\* str(Path(path).relative_to(other)): ValueError unless other is a prefix
\* by segments, "." when nothing remains.
relative_to(path, other) ==
    IF ~is_relative_to(path, other) THEN Raised("ValueError")
    ELSE IF Len(parts(path)) = Len(parts(other)) THEN Returned(<<".">>)
    ELSE Returned(JoinSegments(SubSeq(parts(path), Len(parts(other)) + 1,
                                      Len(parts(path)))))

\* str.removeprefix
removeprefix(s, prefix) ==
    IF startswith(s, prefix) THEN SubSeq(s, Len(prefix) + 1, Len(s)) ELSE s

\* d[key] = value on a dict kept as the sequence of its items, in the order
\* the keys were first set.
dict_set(d, key, value) ==
    IF \E i \in DOMAIN d : d[i].key = key
    THEN [i \in DOMAIN d |->
             IF d[i].key = key THEN [key |-> key, value |-> value] ELSE d[i]]
    ELSE Append(d, [key |-> key, value |-> value])

\* _create_packages_from_parsed_data: indexed_modules, a later module
\* taking the place of an earlier one of the same original_name.
RECURSIVE indexed_modules(_, _)
indexed_modules(d, modules_) ==
    IF modules_ = <<>> THEN d
    ELSE indexed_modules(dict_set(d, Head(modules_).original_name,
                                  Head(modules_)),
                         Tail(modules_))

\* d[key] of that dict, KeyError without the key.
dict_get(d, key) ==
    IF \E i \in DOMAIN d : d[i].key = key
    THEN Returned(d[CHOOSE i \in DOMAIN d : d[i].key = key].value)
    ELSE Raised("KeyError")

\* A plausible slip: the first matching key, whatever its length.
first_key(keys) ==
    IF keys = <<>> THEN None ELSE Some(keys[1])

\* max(keys, key=len, default=None): the first of the longest keys.
longest_key(keys) ==
    IF keys = <<>> THEN None
    ELSE Some(keys[CHOOSE i \in DOMAIN keys :
                      /\ \A j \in DOMAIN keys : Len(keys[j]) <= Len(keys[i])
                      /\ \A j \in 1..(i - 1) : Len(keys[j]) < Len(keys[i])])

\* _find_parent_module_by_name, from the matched name on.
parent_module(d, matched_name) ==
    IF ~Truthy(matched_name) THEN Raised("RuntimeError")
    ELSE dict_get(d, matched_name[1])

\* _create_packages_from_parsed_data._find_parent_module_by_name
_find_parent_module_by_name(d, package) ==
    parent_module(d,
        longest_key([i \in DOMAIN SelectSeq(d, LAMBDA e :
                          is_relative_to(package.import_path, e.key)) |->
                      SelectSeq(d, LAMBDA e :
                          is_relative_to(package.import_path, e.key))[i].key]))

\* _resolve_package_relative_path, the module name taken off as a string.
_resolve_package_relative_path_as_string(package, module) ==
    IF ~startswith(package.import_path, module.original_name)
    THEN Raised("ValueError")
    ELSE Returned(removeprefix(removeprefix(package.import_path,
                                            module.original_name),
                               <<"/">>))

\* _create_packages_from_parsed_data._resolve_package_relative_path
_resolve_package_relative_path(package, module) ==
    IF relative_to(package.import_path, module.original_name).raise # "none"
    THEN Raised("ValueError")
    ELSE Returned(removeprefix(
             relative_to(package.import_path, module.original_name).value,
             <<".">>))

\* _create_package, from the module found on.
package_of(package, module) ==
    IF module.raise # "none" THEN module
    ELSE IF _resolve_package_relative_path(package, module.value).raise # "none"
    THEN Raised("ValueError")
    ELSE Returned(Package(
             _resolve_package_relative_path(package, module.value).value,
             module.value))

\* _create_packages_from_parsed_data._create_package
_create_package(d, package) ==
    IF package.standard
    THEN Returned(StandardPackage(package.import_path))
    ELSE IF package.module = None
    THEN package_of(package, _find_parent_module_by_name(d, package))
    ELSE package_of(package, dict_get(d, package.module[1].path))

\* _create_packages_from_parsed_data: the list comprehension, which the
\* first exception ends.
RECURSIVE create_packages_from(_, _, _)

next_package(done, r, todo, d) ==
    IF r.raise # "none" THEN r
    ELSE create_packages_from(Append(done, r.value), Tail(todo), d)

create_packages_from(done, todo, d) ==
    IF todo = <<>> THEN Returned(done)
    ELSE next_package(done, _create_package(d, Head(todo)), todo, d)

_create_packages_from_parsed_data(modules_, parsed_packages) ==
    create_packages_from(<<>>, parsed_packages,
                         indexed_modules(<<>>, modules_))

\* ------------------------------------------------- the packages' inputs

\* The number of packages `go list` reports, at most.
MaxPkgs == 2

\* The main module as `go list -m` reports it.
M_main == [ParsedModule(<<"m">>, Some(V1), None) EXCEPT !.main = TRUE]

P_fmt == ParsedPackage(<<"f", "m", "t">>, TRUE, None)
P_m == ParsedPackage(<<"m">>, FALSE, Some(M_main))
P_m_x == ParsedPackage(<<"m", "/", "x">>, FALSE, Some(M_main))
P_a_sub == ParsedPackage(<<"a", "/", "s", "u", "b">>, FALSE, Some(M_a_to_c))
P_a_sub_plain == ParsedPackage(<<"a", "/", "s", "u", "b">>, FALSE, Some(M_a))
P_c_y == ParsedPackage(<<"c", "/", "y">>, FALSE, None)
P_ab_x == ParsedPackage(<<"a", "b", "/", "x">>, FALSE, Some(M_a))
P_d_h == ParsedPackage(<<"d", "/", ".", "h">>, FALSE, Some(M_d))
P_z == ParsedPackage(<<"z">>, FALSE, None)
P_c_y_z == ParsedPackage(<<"c", "/", "y", "/", "z">>, FALSE, None)
P_c_yy == ParsedPackage(<<"c", "/", "y", "y">>, FALSE, None)

ParsedPackages ==
    {P_fmt, P_m, P_m_x, P_a_sub, P_a_sub_plain, P_c_y, P_ab_x, P_d_h, P_z,
     P_c_y_z, P_c_yy}

\* A module nested in the module c.
M_c_y == ParsedModule(<<"c", "/", "y">>, Some(V1), None)

\* The parsed modules of a resolution: the build list holds a module path
\* once.
BuildLists ==
    {q \in SeqsUpTo({M_a, M_a_to_c, M_c, M_c_y, M_b_local, M_d}, MaxMods) :
        \A i, j \in DOMAIN q : q[i].path = q[j].path => i = j}

CreatePackagesCalls ==
    {[fn |-> "_create_packages_from_parsed_data", parsed_modules |-> q,
      parsed_packages |-> p] :
        q \in BuildLists, p \in SeqsUpTo(ParsedPackages, MaxPkgs)}

\* ---------------------------------------------- the packages on their own

\* fetch_gomod_source, for a module at the root of the repository: the
\* main module, the modules and the packages of one resolution.
modules_and_packages(main_module, created) ==
    IF main_module.raise # "none" THEN [raise |-> main_module.raise]
    ELSE IF created.raise # "none" THEN [raise |-> created.raise]
    ELSE [raise |-> "none",
          modules |-> <<main_module.value>> \o created.value,
          packages |-> _create_packages_from_parsed_data(
                           <<main_module.value>> \o created.value,
                           call.parsed_packages)]

CreatePackages ==
    /\ Called("_create_packages_from_parsed_data")
    /\ ret' = modules_and_packages(
                  _create_main_module_from_parsed_data(<<".">>, M_main),
                  _create_modules_from_parsed_data(
                      repo_name, RepoRoot, call.parsed_modules, V1))

InitPackages ==
    /\ Idle
    /\ ret = NoCall
    /\ call \in CreatePackagesCalls

NextPackages == CreatePackages

SpecPackages == InitPackages /\ [][NextPackages]_vars

\* -------------------------------------------------------- vendor manifest

\* str.split(): the words of a line between its blanks.
RECURSIVE split(_, _)
split(s, word) ==
    IF s = <<>> THEN (IF word = <<>> THEN <<>> ELSE <<word>>)
    ELSE IF Head(s) = " "
    THEN (IF word = <<>> THEN <<>> ELSE <<word>>) \o split(Tail(s), <<>>)
    ELSE split(Tail(s), Append(word, Head(s)))

\* _parse_vendor.parse_module_line, from the words of the module line on.
module_of_parts(ps) ==
    IF Len(ps) = 2
    THEN Returned(ParsedModule(ps[1], Some(ps[2]), None))
    ELSE IF Len(ps) = 3 /\ ps[2] = <<"=", ">">>
    THEN Returned(ParsedModule(ps[1], None, Some(Replace(ps[3], None))))
    ELSE IF Len(ps) = 4 /\ ps[2] = <<"=", ">">>
    THEN Returned(ParsedModule(ps[1], None,
                               Some(Replace(ps[3], Some(ps[4])))))
    ELSE IF Len(ps) = 4 /\ ps[3] = <<"=", ">">>
    THEN Returned(ParsedModule(ps[1], Some(ps[2]),
                               Some(Replace(ps[4], None))))
    ELSE IF Len(ps) = 5 /\ ps[3] = <<"=", ">">>
    THEN Returned(ParsedModule(ps[1], Some(ps[2]),
                               Some(Replace(ps[4], Some(ps[5])))))
    ELSE Raised("UnexpectedFormat")

\* _parse_vendor.parse_module_line
parse_module_line(line) ==
    module_of_parts(split(removeprefix(line, <<"#", " ">>), <<>>))

\* What _parse_vendor holds between two lines: the modules, whether each
\* has packages, and whether it has failed.
VendorParse(mods, module_has_packages, raise) ==
    [modules |-> mods, module_has_packages |-> module_has_packages,
     raise |-> raise]

\* _parse_vendor: a module line.
vendor_module_line(st, parsed) ==
    IF parsed.raise # "none"
    THEN VendorParse(st.modules, st.module_has_packages, parsed.raise)
    ELSE VendorParse(Append(st.modules, parsed.value),
                     Append(st.module_has_packages, FALSE), "none")

\* _parse_vendor: one line of the loop, every line that begins with "#"
\* and is no module line taken for a marker.
vendor_line_any_marker(st, line) ==
    IF startswith(line, <<"#", " ">>)
    THEN vendor_module_line(st, parse_module_line(line))
    ELSE IF ~startswith(line, <<"#">>)
    THEN IF st.modules = <<>>
         THEN VendorParse(st.modules, st.module_has_packages,
                          "UnexpectedFormat")
         ELSE VendorParse(st.modules,
                          [st.module_has_packages
                               EXCEPT ![Len(st.module_has_packages)] = TRUE],
                          "none")
    ELSE st

\* _parse_vendor: one line of the loop.
vendor_line(st, line) ==
    IF startswith(line, <<"#", " ">>)
    THEN vendor_module_line(st, parse_module_line(line))
    ELSE IF ~startswith(line, <<"#">>)
    THEN IF st.modules = <<>>
         THEN VendorParse(st.modules, st.module_has_packages,
                          "UnexpectedFormat")
         ELSE VendorParse(st.modules,
                          [st.module_has_packages
                               EXCEPT ![Len(st.module_has_packages)] = TRUE],
                          "none")
    ELSE IF ~startswith(line, <<"#", "#">>)
    THEN VendorParse(st.modules, st.module_has_packages, "UnexpectedFormat")
    ELSE st

\* _parse_vendor: the loop over the lines, which the first failure ends.
RECURSIVE vendor_lines(_, _)
vendor_lines(st, lines) ==
    IF st.raise # "none" \/ lines = <<>> THEN st
    ELSE vendor_lines(vendor_line(st, Head(lines)), Tail(lines))

\* _parse_vendor with every module returned, with packages or without.
modules_parsed(st) ==
    IF st.raise # "none" THEN Raised(st.raise) ELSE Returned(st.modules)

\* _parse_vendor: the modules that have packages, in their order.
modules_with_packages(st) ==
    IF st.raise # "none" THEN Raised(st.raise)
    ELSE Returned([i \in DOMAIN SelectSeq(
                            [k \in DOMAIN st.modules |-> k],
                            LAMBDA k : st.module_has_packages[k]) |->
                      st.modules[SelectSeq(
                            [k \in DOMAIN st.modules |-> k],
                            LAMBDA k : st.module_has_packages[k])[i]]])

\* _parse_vendor: exists is whether vendor/modules.txt exists, lines its
\* lines.
_parse_vendor(exists_, lines) ==
    IF ~exists_ THEN Returned(<<>>)
    ELSE modules_with_packages(
             vendor_lines(VendorParse(<<>>, <<>>, "none"), lines))

\* ----------------------------------------------------- the manifest's lines

\* The number of lines of vendor/modules.txt, at most.
MaxLines == 3

L_a == <<"#", " ", "a", " ", "v", "1">>
L_b == <<"#", " ", "b", " ", "v", "1">>
L_a_l == <<"#", " ", "a", " ", "=", ">", " ", ".", "/", "l">>
L_a_c == <<"#", " ", "a", " ", "=", ">", " ", "c", " ", "v", "2">>
L_a_v_l == <<"#", " ", "a", " ", "v", "1", " ", "=", ">", " ", ".", "/", "l">>
L_a_v_c ==
    <<"#", " ", "a", " ", "v", "1", " ", "=", ">", " ", "c", " ", "v", "2">>
L_one == <<"#", " ", "a">>
L_three == <<"#", " ", "a", " ", "v", "1", " ", "c">>
L_five ==
    <<"#", " ", "a", " ", "v", "1", " ", "c", " ", "=", ">", " ", "d">>
L_hash == <<"#", "x">>
L_marker == <<"#", "#", " ", "e", "x", "p", "l", "i", "c", "i", "t">>
L_package == <<"a", "/", "p">>
L_empty == <<>>

\* Module lines of the five shapes.
ModuleLines == {L_a, L_b, L_a_l, L_a_c, L_a_v_l, L_a_v_c}

ManifestLines ==
    ModuleLines \cup
    {L_one, L_three, L_five, L_hash, L_marker, L_package, L_empty}

ParseVendorCalls ==
    {[fn |-> "_parse_vendor", exists |-> e, lines |-> q] :
        e \in BOOLEAN, q \in SeqsUpTo(ManifestLines, MaxLines)}

\* --------------------------------------------- the vendor parser on its own

ParseVendorFile ==
    /\ Called("_parse_vendor")
    /\ ret' = _parse_vendor(call.exists, call.lines)

\* A manifest that does not exist has no lines.
InitVendor ==
    /\ Idle
    /\ ret = NoCall
    /\ call \in {c \in ParseVendorCalls : ~c.exists => c.lines = <<>>}

NextVendor == ParseVendorFile

SpecVendor == InitVendor /\ [][NextVendor]_vars

\* ------------------------------------------------------------ pip metadata

\* What a setup file is for get_pip_metadata: whether it exists, and what
\* its get_name and get_version give: None, or a string that is not empty.
\* raises is the exception get_version ends in, "none" if it returns.
SetupFile(exists_, name, version, raises) ==
    [exists |-> exists_, name |-> name, version |-> version,
     raises |-> raises]

\* What get_pip_metadata ends in, with the methods it called.
pip_metadata(events, raise, value, missing) ==
    [events |-> events, raise |-> raise, value |-> value,
     missing |-> missing]

\* get_pip_metadata: the list of the missing fields.
missing_fields(name, version) ==
    (IF name = None THEN <<"name">> ELSE <<>>)
    \o (IF version = None THEN <<"version">> ELSE <<>>)

\* get_pip_metadata from the missing list on.
resolved_or_missing(events, name, version) ==
    IF missing_fields(name, version) # <<>>
    THEN pip_metadata(events, "CachitoError", None,
                      missing_fields(name, version))
    ELSE pip_metadata(events, "none", Some(<<name[1], version[1]>>), <<>>)

\* get_pip_metadata: "version = version or setup_cfg.get_version()".
fill_in_version(events, name, version, setup_cfg) ==
    IF version # None THEN resolved_or_missing(events, name, version)
    ELSE IF setup_cfg.raises # "none"
    THEN pip_metadata(Append(events, "setup_cfg.get_version"),
                      setup_cfg.raises, None, <<>>)
    ELSE resolved_or_missing(Append(events, "setup_cfg.get_version"),
                             name, setup_cfg.version)

\* get_pip_metadata: "name = name or setup_cfg.get_name()".
fill_in_name(events, name, version, setup_cfg) ==
    IF name # None THEN fill_in_version(events, name, version, setup_cfg)
    ELSE fill_in_version(Append(events, "setup_cfg.get_name"),
                         setup_cfg.name, version, setup_cfg)

\* get_pip_metadata after setup.py, setup.cfg read whatever setup.py gave.
fill_in_always(events, name, version, setup_cfg) ==
    IF ~setup_cfg.exists
    THEN resolved_or_missing(Append(events, "setup_cfg.exists"),
                             name, version)
    ELSE fill_in_name(Append(events, "setup_cfg.exists"), name, version,
                      setup_cfg)

\* get_pip_metadata after setup.py: setup.cfg fills in what is missing.
fill_in(events, name, version, setup_cfg) ==
    IF name # None /\ version # None
    THEN resolved_or_missing(events, name, version)
    ELSE IF ~setup_cfg.exists
    THEN resolved_or_missing(Append(events, "setup_cfg.exists"),
                             name, version)
    ELSE fill_in_name(Append(events, "setup_cfg.exists"), name, version,
                      setup_cfg)

\* get_pip_metadata
get_pip_metadata(setup_py, setup_cfg) ==
    IF setup_py.exists
    THEN fill_in(<<"setup_py.exists", "setup_py.get_name",
                   "setup_py.get_version">>,
                 setup_py.name, setup_py.version, setup_cfg)
    ELSE fill_in(<<"setup_py.exists">>, None, None, setup_cfg)

\* The setup.py files: a file that does not exist gives nothing.
SetupPYs ==
    {SetupFile(TRUE, n, v, "none") :
        n \in {None, Some("py_name")}, v \in {None, Some("py_version")}}
    \cup {SetupFile(FALSE, None, None, "none")}

\* The setup.cfg files: get_version may end in the ValidationError of
\* _ensure_local or of _convert_to_path.
SetupCFGs ==
    {SetupFile(TRUE, n, v, "none") :
        n \in {None, Some("cfg_name")}, v \in {None, Some("cfg_version")}}
    \cup {SetupFile(TRUE, n, None, "ValidationError") :
             n \in {None, Some("cfg_name")}}
    \cup {SetupFile(FALSE, None, None, "none")}

GetPipMetadataCalls ==
    {[fn |-> "get_pip_metadata", setup_py |-> p, setup_cfg |-> c] :
        p \in SetupPYs, c \in SetupCFGs}

GetPipMetadata ==
    /\ Called("get_pip_metadata")
    /\ ret' = get_pip_metadata(call.setup_py, call.setup_cfg)

\* ----------------------------------------------------- pip requirements

\* PipRequirementsFile.OPTIONS: the options that require a value.
OptionsWithValue ==
    {<<"-", "-", "c", "o", "n", "s", "t", "r", "a", "i", "n", "t">>,
     <<"-", "-", "e", "x", "t", "r", "a", "-", "i", "n", "d", "e", "x", "-", "u", "r", "l">>,
     <<"-", "-", "f", "i", "n", "d", "-", "l", "i", "n", "k", "s">>,
     <<"-", "-", "i", "n", "d", "e", "x", "-", "u", "r", "l">>,
     <<"-", "-", "n", "o", "-", "b", "i", "n", "a", "r", "y">>,
     <<"-", "-", "o", "n", "l", "y", "-", "b", "i", "n", "a", "r", "y">>,
     <<"-", "-", "r", "e", "q", "u", "i", "r", "e", "m", "e", "n", "t">>,
     <<"-", "-", "t", "r", "u", "s", "t", "e", "d", "-", "h", "o", "s", "t">>,
     <<"-", "-", "u", "s", "e", "-", "f", "e", "a", "t", "u", "r", "e">>,
     <<"-", "c">>, <<"-", "f">>, <<"-", "-", "h", "a", "s", "h">>,
     <<"-", "i">>, <<"-", "r">>}

\* PipRequirementsFile.OPTIONS: the options that take no value.
OptionsWithoutValue ==
    {<<"-", "-", "e", "d", "i", "t", "a", "b", "l", "e">>,
     <<"-", "-", "n", "o", "-", "i", "n", "d", "e", "x">>,
     <<"-", "-", "p", "r", "e">>,
     <<"-", "-", "p", "r", "e", "f", "e", "r", "-", "b", "i", "n", "a", "r", "y">>,
     <<"-", "-", "r", "e", "q", "u", "i", "r", "e", "-", "h", "a", "s", "h", "e", "s">>,
     <<"-", "e">>}

\* PipRequirementsFile.OPTIONS: whether the option requires a value.
OPTIONS ==
    [option \in OptionsWithValue \cup OptionsWithoutValue |->
        option \in OptionsWithValue]

\* PipRequirementsFile.REQUIREMENT_OPTIONS
REQUIREMENT_OPTIONS ==
    {<<"-", "e">>, <<"-", "-", "e", "d", "i", "t", "a", "b", "l", "e">>,
     <<"-", "-", "h", "a", "s", "h">>}

\* sep.join(words)
RECURSIVE join(_, _)
join(words, sep) ==
    IF words = <<>> THEN <<>>
    ELSE IF Len(words) = 1 THEN words[1]
    ELSE words[1] \o sep \o join(Tail(words), sep)

\* part.split("=", 1): what stands before the first "=".
option_of(part) ==
    IF find(part, "=", 1) = 0 THEN part
    ELSE SubSeq(part, 1, find(part, "=", 1) - 1)

\* part.split("=", 1): what stands after the first "=", None without "=".
value_of(part) ==
    IF find(part, "=", 1) = 0 THEN None
    ELSE Some(SubSeq(part, find(part, "=", 1) + 1, Len(part)))

\* The locals of _split_options_and_requirement; _context_options is the
\* name of the list it refers to.
split_locals ==
    [global_options |-> <<>>, requirement_options |-> <<>>,
     requirement |-> <<>>, _require_value |-> FALSE,
     _context_options |-> "none", raise |-> "none"]

\* _context_options.append, for each of the items.
context_append(st, context, items) ==
    IF context = "requirement_options"
    THEN [st EXCEPT !.requirement_options = @ \o items]
    ELSE [st EXCEPT !.global_options = @ \o items]

\* A plausible slip: --hash left out of the requirement options.
context_of_editable_only(option) ==
    IF option \in {<<"-", "e">>, <<"-", "-", "e", "d", "i", "t", "a", "b", "l", "e">>}
    THEN "requirement_options" ELSE "global_options"

\* The list an option belongs to.
context_of(option) ==
    IF option \in REQUIREMENT_OPTIONS
    THEN "requirement_options" ELSE "global_options"

\* The option and what follows "=" go to the option's list.
with_option(st, option, value) ==
    [context_append(st, context_of(option),
                    <<option>> \o (IF Truthy(value) THEN value ELSE <<>>))
     EXCEPT !._require_value = OPTIONS[option] /\ ~Truthy(value),
            !._context_options = context_of(option)]

\* The loop's branch for a part that starts with "-", from the look-up in
\* OPTIONS on.
split_option(st, option, value) ==
    IF option \notin DOMAIN OPTIONS
    THEN [st EXCEPT !.raise = "ValidationError"]
    ELSE IF Truthy(value) /\ ~OPTIONS[option]
    THEN [st EXCEPT !.raise = "ValidationError"]
    ELSE with_option(st, option, value)

\* One turn of the loop over line.split().
split_part(st, part) ==
    IF st._require_value
    THEN [context_append(st, st._context_options, <<part>>)
          EXCEPT !._require_value = FALSE]
    ELSE IF startswith(part, <<"-">>)
    THEN split_option(st, option_of(part), value_of(part))
    ELSE [st EXCEPT !.requirement = Append(@, part)]

\* The loop, which the first exception ends.
RECURSIVE split_parts(_, _)
split_parts(st, todo) ==
    IF todo = <<>> \/ st.raise # "none" THEN st
    ELSE split_parts(split_part(st, Head(todo)), Tail(todo))

\* _split_options_and_requirement after the loop.
split_result(st) ==
    IF st.raise # "none" THEN Raised(st.raise)
    ELSE IF st._require_value THEN Raised("ValidationError")
    ELSE IF st.requirement_options # <<>> /\ st.requirement = <<>>
    THEN Raised("ValidationError")
    ELSE Returned(<<st.global_options, st.requirement_options,
                    join(st.requirement, <<" ">>)>>)

\* PipRequirementsFile._split_options_and_requirement
_split_options_and_requirement(line) ==
    split_result(split_parts(split_locals, split(line, <<>>)))

\* The number of parts of a line, at most.
MaxParts == 3

T_req == <<"a", "=", "=", "1">>
T_name == <<"b">>
T_e == <<"-", "e">>
T_hash == <<"-", "-", "h", "a", "s", "h">>
T_r == <<"-", "r">>
T_pre == <<"-", "-", "p", "r", "e">>
T_hash_h == <<"-", "-", "h", "a", "s", "h", "=", "h">>
T_hash_ == <<"-", "-", "h", "a", "s", "h", "=">>
T_pre_x == <<"-", "-", "p", "r", "e", "=", "x">>
T_pre_ == <<"-", "-", "p", "r", "e", "=">>
T_r_ab == <<"-", "r", "=", "a", "=", "b">>
T_x == <<"-", "x">>
T_e_b == <<"-", "e", "=", "b">>

\* Requirements, options with and without "=", with a value missing or
\* not wanted, and an option that is not allowed.
Parts ==
    {T_req, T_name, T_e, T_hash, T_r, T_pre, T_hash_h,
     T_hash_, T_pre_x, T_pre_, T_r_ab, T_x, T_e_b}

\* The lines _read_lines yields: not empty, no white space at the ends,
\* one or two blanks between the parts.
RequirementLines ==
    {join(q, sep) : q \in SeqsUpTo(Parts, MaxParts) \ {<<>>},
                    sep \in {<<" ">>, <<" ", " ">>}}

SplitCalls ==
    {[fn |-> "_split_options_and_requirement", line |-> l] :
        l \in RequirementLines}

SplitOptionsAndRequirement ==
    /\ Called("_split_options_and_requirement")
    /\ ret' = _split_options_and_requirement(call.line)

\* The functions of pip.py, each on its own.
InitPip ==
    /\ Idle
    /\ call \in GetPipMetadataCalls \cup SplitCalls
    /\ ret = NoCall

NextPip ==
    \/ GetPipMetadata
    \/ SplitOptionsAndRequirement

SpecPip == InitPip /\ [][NextPip]_vars

\* ============================================================== properties

\* ------------------------------------------------------- reading the trace

Events == DOMAIN trace

IsCmd(e, argv) == e.ev = "cmd" /\ e.argv = argv

IsGit(e, args) == e.ev = "git" /\ e.note = args

IsGoList(e) == e.ev = "cmd" /\ IsPrefixSeq(<<"go", "list">>, e.argv)

\* A step of the vendor mutation detector.
IsDetector(e) ==
    e.ev = "git"
    /\ e.note \in {GitRepo, GitAdd, GitDiffManifest, GitDiffTree, GitReset}

IsDiff(e) == e.ev = "git" /\ e.note \in {GitDiffManifest, GitDiffTree}

\* The arbiter has been called for the sub-path being resolved and what it
\* did is still what the state shows.
ArbiterCalled == vendor # "unread" /\ pc # "done"

ArbiterFailed == err_at = "arbiter" /\ err = "PackageRejected"

\* --------------------------------------------------------------------- C1

\* C1, as stated: whenever the flags hold gomod-vendor, the arbiter returns
\* (should_vendor, can_make_changes) = (TRUE, TRUE), gomod-vendor-check or
\* not, vendor directory or not, strict or not.
C1_AsStated ==
    (ArbiterCalled /\ "gomod-vendor" \in flags)
        => (~ArbiterFailed /\ should_vendor /\ can_make_changes)

\* C1, amended: with gomod-vendor in the flags the arbiter never fails and
\* returns should_vendor = TRUE; can_make_changes is TRUE when
\* gomod-vendor-check is not in the flags, and with both flags it is TRUE
\* exactly when nothing exists at app_dir/vendor (gomod-vendor-check wins).
C1_VendorFlag ==
    (ArbiterCalled /\ "gomod-vendor" \in flags)
        => /\ ~ArbiterFailed
           /\ should_vendor
           /\ can_make_changes =
                  (IF "gomod-vendor-check" \in flags THEN ~exists(vendor)
                   ELSE TRUE)

\* C1: both flags and an existing vendor directory, and the arbiter has
\* answered (TRUE, FALSE).
C1_Witness ==
    /\ pc = "download"
    /\ {"gomod-vendor", "gomod-vendor-check"} \subseteq flags
    /\ vendor = "dir"
    /\ should_vendor
    /\ ~can_make_changes

\* --------------------------------------------------------------------- C2

\* C2, as stated, "the vendor directory is present" read as: app_dir/vendor
\* is a directory. Without gomod-vendor: with gomod-vendor-check the result
\* is (TRUE, b), b exactly when the vendor directory is absent; with neither
\* flag the call fails with PackageRejected exactly when strict and the
\* vendor directory is present, and else returns (FALSE, FALSE).
C2_AsStated ==
    (ArbiterCalled /\ "gomod-vendor" \notin flags)
        => IF "gomod-vendor-check" \in flags
           THEN /\ ~ArbiterFailed
                /\ should_vendor
                /\ can_make_changes = ~is_dir(vendor)
           ELSE /\ ArbiterFailed = (strict /\ is_dir(vendor))
                /\ ~ArbiterFailed => (~should_vendor /\ ~can_make_changes)

\* C2, amended: without gomod-vendor, with gomod-vendor-check the result is
\* (TRUE, b), b exactly when nothing exists at app_dir/vendor (a regular
\* file there counts as present); with neither flag the call fails with
\* PackageRejected exactly when strict and app_dir/vendor is a directory (a
\* regular file there does not count), and else returns (FALSE, FALSE).
C2_NoVendorFlag ==
    (ArbiterCalled /\ "gomod-vendor" \notin flags)
        => IF "gomod-vendor-check" \in flags
           THEN /\ ~ArbiterFailed
                /\ should_vendor
                /\ can_make_changes = ~exists(vendor)
           ELSE /\ ArbiterFailed = (strict /\ is_dir(vendor))
                /\ ~ArbiterFailed => (~should_vendor /\ ~can_make_changes)

\* C2: strict mode, neither flag, a vendor directory: the arbiter has failed
\* with PackageRejected.
C2_Witness ==
    /\ pc = "release"
    /\ flags \cap {"gomod-vendor", "gomod-vendor-check"} = {}
    /\ strict
    /\ vendor = "dir"
    /\ ArbiterFailed

\* --------------------------------------------------------------------- C3

\* The steps of a resolution that come after the vendor step.
AfterVendorSteps ==
    {"parse_vendor", "tidy", "list_main", "reify", "list_all",
     "list_packages", "validate", "create"}

\* C3: every step of the mutation detector comes after a completed
\* `go mod vendor` of the same sub-path, and a resolution with
\* (should_vendor, can_make_changes) = (TRUE, FALSE) does not get past the
\* vendor step without the detector; once a diff of the detector is
\* non-empty the request is over, the vendor manifest of that sub-path is
\* never parsed and no `go list` runs for it, and the error leaving the
\* vendor step is PackageRejected (the detector reported the change: its
\* reset succeeded); when can_make_changes is TRUE no step of the detector
\* runs for the sub-path.
C3_DetectorGatesVendoring ==
    /\ \A i \in Events :
          IsDetector(trace[i])
              => \E j \in 1..(i - 1) :
                     /\ IsCmd(trace[j], GoModVendor)
                     /\ trace[j].sub = trace[i].sub
                     /\ trace[j].outcome = "ok"
    /\ (vendor # "unread" /\ should_vendor /\ ~can_make_changes
            /\ pc \in AfterVendorSteps)
           => \E i \in Events : IsGit(trace[i], GitRepo) /\ trace[i].sub = idx
    /\ \A i \in Events :
          (IsDiff(trace[i]) /\ trace[i].outcome = "nonempty")
              => /\ pc \in {"release", "done"}
                 /\ \A j \in Events :
                       trace[j].sub = trace[i].sub
                           => /\ trace[j].ev # "parse_vendor"
                              /\ ~IsGoList(trace[j])
                 /\ (pc = "release" /\ trace[Len(trace)].outcome = "ok")
                        => (err = "PackageRejected" /\ err_at = "vendor_check")
    /\ (vendor # "unread" /\ can_make_changes)
           => \A i \in Events : trace[i].sub = idx => ~IsDetector(trace[i])

\* C3: the arbiter answered (TRUE, FALSE), `go mod vendor` ran, the
\* detector found a non-empty diff and the resolution has failed with
\* PackageRejected.
C3_Witness ==
    /\ pc = "release"
    /\ should_vendor
    /\ ~can_make_changes
    /\ err = "PackageRejected"
    /\ err_at = "vendor_check"
    /\ \E i \in Events : IsDiff(trace[i]) /\ trace[i].outcome = "nonempty"

\* --------------------------------------------------------------------- C4

C5_CleanThenRemove ==
    /\ \A i \in Events :
          trace[i].ev = "rmtree"
              => /\ trace[i].note = <<tmp_dir>>
                 /\ i > 1
                 /\ IsCmd(trace[i - 1], GoClean)
                 /\ trace[i - 1].has_env
                 /\ "GOPATH" \in DOMAIN trace[i - 1].env
                 /\ trace[i - 1].env["GOPATH"] = tmp_dir
    /\ \A i \in Events :
          IsCmd(trace[i], GoClean)
              => (i < Len(trace) /\ trace[i + 1].ev = "rmtree")
    /\ (ws = "removed") = (\E i \in Events : trace[i].ev = "rmtree")
    /\ pc = "done" => ws # "live"

\* C5: a resolution failed, the workspace was released by the exception,
\* `go clean -modcache` failed too, and the directory was removed all the
\* same.
C5_Witness ==
    /\ pc = "done"
    /\ ws = "removed"
    /\ err_at = "release"
    /\ Len(trace) > 1
    /\ trace[Len(trace)].ev = "rmtree"
    /\ IsCmd(trace[Len(trace) - 1], GoClean)
    /\ trace[Len(trace) - 1].outcome = "CalledProcessError"
    /\ \E i \in Events : trace[i].sub > 0 /\ trace[i].outcome \notin {"ok", "empty"}

\* --------------------------------------------------------------------- C6

\* A value that names the workspace directory or a place below it.
PointsIntoWorkspace(v) == v \in {tmp_dir, "tmp_dir/pkg/mod"}

\* No variable of env but PATH has its value from os.environ.
OnlyPathInherited(env) ==
    \A n \in DOMAIN env :
        (\E m \in DOMAIN os_environ : env[n] = os_environ[m]) => n = "PATH"

\* GOPATH, GOCACHE and GOMODCACHE point into the workspace, GO111MODULE is
\* on, and nothing but PATH is inherited.
Isolated(env) ==
    /\ {"GOPATH", "GOCACHE", "GOMODCACHE", "GO111MODULE"} \subseteq DOMAIN env
    /\ PointsIntoWorkspace(env["GOPATH"])
    /\ PointsIntoWorkspace(env["GOCACHE"])
    /\ PointsIntoWorkspace(env["GOMODCACHE"])
    /\ env["GO111MODULE"] = "on"
    /\ OnlyPathInherited(env)

Attempts == {i \in Events : trace[i].ev = "cmd"}

\* C7: a call of the download invoker with n_tries tries runs the command
\* at least once and at most n_tries times; an attempt that succeeds is the
\* last thing the call does and the call returns; when n_tries attempts
\* have all failed with a toolchain error the call fails with GoModError
\* stating n_tries tries; attempts and waits alternate, beginning and ending
\* with an attempt, and the k-th wait is 2^(k-1) seconds.
C7_DownloadRetries ==
    pc # "download"
        => /\ Cardinality(Attempts) \in 1..n_tries
           /\ \A i \in Attempts :
                 trace[i].outcome = "ok" => (i = Len(trace) /\ err = "none")
           /\ (/\ Cardinality(Attempts) = n_tries
               /\ \A i \in Attempts : trace[i].outcome = "CalledProcessError")
                  => (err = "GoModError" /\ err_tried = n_tries)
           /\ \A i \in Events :
                 IF i % 2 = 1 THEN trace[i].ev = "cmd"
                 ELSE /\ trace[i].ev = "sleep"
                      /\ trace[i].note = <<2 ^ ((i \div 2) - 1)>>
                      /\ trace[i - 1].outcome = "CalledProcessError"
           /\ Len(trace) % 2 = 1

\* C7: three tries configured, three failed attempts with waits of 1 and 2
\* seconds between them, and GoModError stating three tries.
C7_Witness ==
    /\ pc = "release"
    /\ n_tries = 3
    /\ Len(trace) = 5
    /\ trace[2].note = <<1>>
    /\ trace[4].note = <<2>>
    /\ err = "GoModError"
    /\ err_tried = 3

\* --------------------------------------------------------------------- C8

\* C8: every module of the final module list, the main module and the
\* modules built from the merged parsed modules, has a non-empty version.
C8_VersionsNonEmpty ==
    \A i \in DOMAIN modules : modules[i].version # <<>>

\* --------------------------------------------------------------------- C9

\* The uniqueness key as the claim gives it: (replace.path,
\* replace.version) for a version replacement, (path, replace.path) for a
\* local-path replacement, (path, version) otherwise.
C9_Key(m) ==
    IF m.replace # None /\ m.replace[1].version # None
    THEN <<m.replace[1].path, m.replace[1].version>>
    ELSE IF m.replace # None THEN <<m.path, Some(m.replace[1].path)>>
    ELSE <<m.path, m.version>>

Range(q) == {q[i] : i \in DOMAIN q}

\* C9: after the merge no two places of the merged list hold modules with
\* the same key, and the key of every module of the package-modules-set and
\* of the downloaded-set is the key of a module of the merged list.
C9_MergedKeys ==
    pc = "validate"
        => /\ \A i, j \in DOMAIN all_modules :
                 i # j => C9_Key(all_modules[i]) # C9_Key(all_modules[j])
           /\ \A m \in Range(package_modules) \cup Range(downloaded_modules) :
                 \E i \in DOMAIN all_modules : C9_Key(all_modules[i]) = C9_Key(m)

\* C9: the merge has run on two views that hold different parsed modules
\* with the same key (a module replaced by c v2, and c v2 itself), and on a
\* view that holds a module twice.
C9_Witness ==
    /\ pc = "validate"
    /\ \E i \in DOMAIN package_modules, j \in DOMAIN downloaded_modules :
          /\ package_modules[i] # downloaded_modules[j]
          /\ C9_Key(package_modules[i]) = C9_Key(downloaded_modules[j])
    /\ Len(package_modules) = 2
    /\ package_modules[1] = package_modules[2]
    /\ Len(all_modules) = 1

\* -------------------------------------------------------------------- C10

\* A parsed module replaced by a local path.
LocalReplaced(m) == m.replace # None /\ m.replace[1].version = None

\* Its replacement path, joined to the app directory, leaves the root.
Escapes(m) == ~join_within_root(app_dir, m.replace[1].path).inside

DotPath(m) == startswith(m.replace[1].path, <<".">>)

\* C10, as stated: the resolution (_resolve_gomod) returns only if every
\* merged module with a local-path replacement stays within the root, and
\* when the merged modules hold one that escapes, the error the request
\* fails with is PathOutsideRoot naming that module and its replacement
\* path.
C10_AsStated ==
    /\ pc = "create"
           => \A i \in DOMAIN all_modules :
                  LocalReplaced(all_modules[i]) => ~Escapes(all_modules[i])
    /\ (/\ pc = "release"
        /\ err_at \in {"validate", "create"}
        /\ \E i \in DOMAIN all_modules :
              LocalReplaced(all_modules[i]) /\ Escapes(all_modules[i]))
           => /\ err = "PathOutsideRoot"
              /\ \E i \in DOMAIN all_modules :
                    /\ LocalReplaced(all_modules[i])
                    /\ Escapes(all_modules[i])
                    /\ err_names = <<all_modules[i].path,
                                     all_modules[i].replace[1].path>>

\* What holds in every state, for C10 as amended.
C10_Validated ==
    /\ pc = "create"
           => \A i \in DOMAIN all_modules :
                  (LocalReplaced(all_modules[i]) /\ DotPath(all_modules[i]))
                      => ~Escapes(all_modules[i])
    /\ (pc = "release" /\ err_at = "validate")
           => /\ err = "PathOutsideRoot"
              /\ \E i \in DOMAIN all_modules :
                    /\ LocalReplaced(all_modules[i])
                    /\ DotPath(all_modules[i])
                    /\ Escapes(all_modules[i])
                    /\ err_names = <<all_modules[i].path,
                                     all_modules[i].replace[1].path>>
    /\ (pc = "release" /\ err_at = "create")
           => /\ err = "PathOutsideRoot"
              /\ \E i \in DOMAIN all_modules :
                    /\ LocalReplaced(all_modules[i])
                    /\ ~DotPath(all_modules[i])
                    /\ Escapes(all_modules[i])

\* The step from a resolution that returned with an escaping local
\* replacement: the construction of the modules fails.
C10_LateFailure ==
    (/\ pc = "create"
     /\ \E i \in DOMAIN all_modules :
           LocalReplaced(all_modules[i]) /\ Escapes(all_modules[i]))
        => (pc' = "release" /\ err' = "PathOutsideRoot" /\ err_at' = "create")

\* C10, amended: the resolution (_resolve_gomod) returns only if every
\* merged module whose replacement path begins with "." stays within the
\* root; if one of those escapes, the resolution fails with PathOutsideRoot
\* naming the module and its replacement path. An escaping local
\* replacement whose path does not begin with "." (an absolute path) is not
\* caught by the resolution: the request fails right after it, when the
\* modules are constructed, with the PathOutsideRoot of the path join.
C10_LocalReplacements == []C10_Validated /\ [][C10_LateFailure]_vars

\* C10: module b replaced by ../o, at the repository root: the validation
\* has failed and names b and ../o.
C10_Witness ==
    /\ pc = "release"
    /\ err_at = "validate"
    /\ err = "PathOutsideRoot"
    /\ subpaths[idx] = <<".">>
    /\ err_names = <<<<"b">>, <<".", ".", "/", "o">>>>

\* ---------------------------------------------------------------- reifier

\* The reifier has been called and has returned or raised.
Reified == call.fn = "_get_golang_version" /\ ret # NoCall

\* The last segment of a module name is "v" and a number.
HasMajorSuffix(name) ==
    LET segs == split_on(name, "/")
        last == segs[Len(segs)]
    IN  /\ Len(segs) >= 2
        /\ Len(last) >= 2
        /\ last[1] = "v"
        /\ \A i \in 2..Len(last) : IsDigit(last[i])

\* The number of that suffix.
MajorSuffix(name) ==
    LET segs == split_on(name, "/")
    IN  int(Tail(segs[Len(segs)]))

\* C11: for every module name given to the reifier, the candidate major
\* versions are [N] if the name ends with /vN and N >= 2, and [1, 0], in
\* that order, for every other name: no such suffix, or /v0, or /v1.
C11_CandidateMajors ==
    (Reified /\ ret.raise # "FetchError")
        => ret.major_versions_to_try =
               IF HasMajorSuffix(call.module.name)
                  /\ MajorSuffix(call.module.name) >= 2
               THEN <<MajorSuffix(call.module.name)>>
               ELSE <<1, 0>>

\* The committer time of the commits considered, as YYYYMMDDHHMMSS in UTC.
Timestamp(commit) ==
    IF commit.committed_date = 0
    THEN <<"1", "9", "7", "0", "0", "1", "0", "1",
           "0", "0", "0", "0", "0", "0">>
    ELSE <<"1", "9", "7", "0", "0", "1", "1", "2",
           "1", "3", "4", "6", "3", "9">>

\* -<ts>-<h> without its first character.
TimeAndHash(commit) ==
    Timestamp(commit) \o <<"-">> \o SubSeq(commit.hexsha, 1, 12)

TagPrefix(subpath) ==
    IF subpath = None THEN <<"v">> ELSE subpath[1] \o <<"/", "v">>

\* What follows the prefix in a tag name.
Remainder(tag, subpath) ==
    SubSeq(tag, Len(TagPrefix(subpath)) + 1, Len(tag))

\* A tag has the prefix of the module and its remainder is a semantic
\* version of one of the major versions.
Qualifies(tag, subpath, majors) ==
    /\ startswith(tag, TagPrefix(subpath))
    /\ Version_parse(Remainder(tag, subpath)).raise = "none"
    /\ \E i \in DOMAIN majors :
          Version_parse(Remainder(tag, subpath)).value.major = majors[i]

\* The tag name without "<subpath>/" in front.
Stripped(tag, subpath) ==
    IF subpath = None THEN tag
    ELSE SubSeq(tag, Len(subpath[1]) + 2, Len(tag))

\* The qualifying tags that point at the commit of the call.
ExactTags ==
    {call.repo.on_commit[i] : i \in DOMAIN call.repo.on_commit}
    \cap {t \in TagNames :
             Qualifies(t, call.module.subpath, ret.major_versions_to_try)}

\* C13: if a tag that points at the commit has the prefix of the module,
\* parses as a semantic version and has a candidate major version, the
\* reifier returns a tag name without the subpath in front: the highest of
\* the qualifying tags of the first candidate major version that has one.
\* The reachable tags are listed only if no tag on the commit qualifies,
\* and a tag that does not parse is no error.
C13_ExactTag ==
    Reified =>
        LET majors == ret.major_versions_to_try
            subpath == call.module.subpath
            ver(t) == Version_parse(Remainder(t, subpath)).value
            first == CHOOSE i \in DOMAIN majors :
                        /\ \E t \in ExactTags : ver(t).major = majors[i]
                        /\ \A j \in 1..(i - 1) :
                              \A t \in ExactTags : ver(t).major # majors[j]
            best == {t \in ExactTags :
                        /\ ver(t).major = majors[first]
                        /\ \A u \in ExactTags :
                              ver(u).major = majors[first]
                                  => ~Version_gt(ver(u), ver(t))}
        IN  /\ ret.raise \in {"none", "FetchError", "GitCommandError"}
            /\ (ret.raise = "none" /\ ExactTags # {})
                   => \E t \in best : ret.value = Some(Stripped(t, subpath))
            /\ (\E i \in DOMAIN ret.events :
                    ret.events[i].note = GitForEachRef)
                   => (ret.raise # "FetchError" /\ ExactTags = {})

\* The listings of tags among the steps of the reifier.
Listings ==
    {i \in DOMAIN ret.events :
        ret.events[i].note \in {GitTagPointsAt, GitForEachRef}}

ModulesCreated ==
    /\ call.fn = "_create_packages_from_parsed_data"
    /\ ret # NoCall
    /\ ret.raise = "none"

\* The packages of a resolution have been created.
PackagesCreated == ModulesCreated /\ ret.packages.raise = "none"

\* C15: for every resolved package that is not of the standard library,
\* the original_name of the module it belongs to is a prefix, by path
\* segments, of the import path of the parsed package it was built from.
C15_OwnerIsPrefix ==
    PackagesCreated =>
        \A i \in DOMAIN call.parsed_packages :
            ~call.parsed_packages[i].standard
                => IsPrefixSeq(
                       Segments(ret.packages.value[i].module.original_name),
                       Segments(call.parsed_packages[i].import_path))

\* C15: the package c/y, reported without a module, belongs to module c.
C15_Witness ==
    /\ PackagesCreated
    /\ call.parsed_packages = <<P_c_y>>
    /\ ret.packages.value[1].module.original_name = <<"c">>

VendorParsed == call.fn = "_parse_vendor" /\ ret # NoCall /\ call.exists

IsModuleLine(line) == Len(line) >= 2 /\ line[1] = "#" /\ line[2] = " "

IsMarkerLine(line) == Len(line) >= 2 /\ line[1] = "#" /\ line[2] = "#"

IsPackageLine(line) == line = <<>> \/ line[1] # "#"

\* The line at i is one of the three failures: a package line before any
\* module line, a "#" line that is neither a module line nor a marker, a
\* module line of none of the five shapes.
BadLine(lines, i) ==
    \/ /\ IsPackageLine(lines[i])
       /\ \A j \in 1..(i - 1) : ~IsModuleLine(lines[j])
    \/ /\ ~IsPackageLine(lines[i])
       /\ ~IsModuleLine(lines[i])
       /\ ~IsMarkerLine(lines[i])
    \/ /\ IsModuleLine(lines[i])
       /\ lines[i] \notin ModuleLines

WellFormed(lines) == \A i \in DOMAIN lines : ~BadLine(lines, i)

\* C17: the vendor parser fails with UnexpectedFormat, and returns no
\* module, if a package line comes before any module line, if a line
\* begins with "#" and is neither a module line ("# ") nor a marker
\* ("##"), or if a module line has none of the five shapes. The marker
\* lines cause no failure and change nothing: the manifest without them
\* gives the same result.
C17_UnexpectedFormat ==
    VendorParsed =>
        /\ ~WellFormed(call.lines)
               => (ret.raise = "UnexpectedFormat" /\ ret.value = <<>>)
        /\ ret = _parse_vendor(TRUE, SelectSeq(call.lines,
                                   LAMBDA l : ~IsMarkerLine(l)))
        /\ (\A i \in DOMAIN call.lines : IsMarkerLine(call.lines[i]))
               => ret = Returned(<<>>)

\* C17: a marker, then a line "#x": the parse has failed.
C17_Witness ==
    /\ VendorParsed
    /\ call.lines = <<L_a, L_marker, L_hash>>
    /\ ret = Raised("UnexpectedFormat")

\* The module a module line of the five shapes stands for.
ModuleOfLine(line) ==
    IF line = L_a THEN ParsedModule(<<"a">>, Some(V1), None)
    ELSE IF line = L_b THEN ParsedModule(<<"b">>, Some(V1), None)
    ELSE IF line = L_a_l
    THEN ParsedModule(<<"a">>, None, Some(Replace(<<".", "/", "l">>, None)))
    ELSE IF line = L_a_c
    THEN ParsedModule(<<"a">>, None, Some(Replace(<<"c">>, Some(V2))))
    ELSE IF line = L_a_v_l
    THEN ParsedModule(<<"a">>, Some(V1),
                      Some(Replace(<<".", "/", "l">>, None)))
    ELSE ParsedModule(<<"a">>, Some(V1), Some(Replace(<<"c">>, Some(V2))))

\* The module line at i is followed by a package line before the next
\* module line or the end.
HasPackageLine(lines, i) ==
    \E k \in (i + 1)..Len(lines) :
        /\ IsPackageLine(lines[k])
        /\ \A j \in (i + 1)..(k - 1) : ~IsModuleLine(lines[j])

\* The places of the module lines that have a package line, in order.
Emitted(lines) ==
    SelectSeq([i \in DOMAIN lines |-> i],
              LAMBDA i : IsModuleLine(lines[i]) /\ HasPackageLine(lines, i))

\* C18: of a well-formed manifest the vendor parser returns, in the order
\* of the manifest, exactly the modules whose module line is followed by a
\* package line before the next module line or the end; a package line
\* gives no record, and a module without a package line is left out.
C18_ModulesWithPackages ==
    (VendorParsed /\ WellFormed(call.lines))
        => ret = Returned([n \in DOMAIN Emitted(call.lines) |->
                              ModuleOfLine(call.lines[Emitted(call.lines)[n]])])

\* C18: module a without packages, then module b with one: only b is
\* returned.
C18_Witness ==
    /\ VendorParsed
    /\ call.lines = <<L_a, L_b, L_package>>
    /\ ret = Returned(<<ParsedModule(<<"b">>, Some(V1), None)>>)

\* -------------------------------------------------------------------- C19

\* The copies of the module cache to the download directory.
Copies == {i \in Events : trace[i].ev = "copytree"}

\* The tests whether the workspace holds pkg/mod, with what they found.
CacheTests(found) ==
    {i \in Events : /\ trace[i].ev = "exists"
                    /\ trace[i].note = <<"pkg/mod">>
                    /\ trace[i].outcome = found}

\* C19: when every module of the request has been resolved, the pkg/mod
\* subtree of the workspace, if the workspace has one, is copied into the
\* download directory when neither gomod-vendor nor gomod-vendor-check is
\* among the flags; with either flag nothing is copied, then or at any
\* other time.
C19_CopyUnlessVendored ==
    /\ (pc = "release" /\ err = "none")
        => IF flags \cap {"gomod-vendor", "gomod-vendor-check"} = {}
           THEN \/ /\ CacheTests("present") = {Len(trace) - 1}
                   /\ Copies = {Len(trace)}
                   /\ trace[Len(trace)].note = <<"pkg/mod">>
                \/ /\ CacheTests("missing") = {Len(trace)}
                   /\ Copies = {}
           ELSE Copies = {}
    /\ flags \cap {"gomod-vendor", "gomod-vendor-check"} # {} => Copies = {}

\* C19: a request without flags for a module in s has been resolved and
\* its module cache copied.
C19_Witness ==
    /\ pc = "release"
    /\ err = "none"
    /\ flags = {}
    /\ subpaths = <<<<"s">>>>
    /\ Copies = {Len(trace)}

\* -------------------------------------------------------------------- C20

\* The sub-paths whose go.mod was looked for and found in the given state.
GoModFound(found) ==
    {trace[i].sub : i \in {i \in Events : /\ trace[i].ev = "exists"
                                          /\ trace[i].note = <<"go.mod">>
                                          /\ trace[i].outcome = found}}

\* The sub-paths without go.mod, in the order of the request.
MissingSubpaths ==
    [n \in DOMAIN SelectSeq([i \in DOMAIN subpaths |-> i],
                            LAMBDA i : i \in GoModFound("missing")) |->
        subpaths[SelectSeq([i \in DOMAIN subpaths |-> i],
                           LAMBDA i : i \in GoModFound("missing"))[n]]]

\* No workspace has been made and no command run but `go version`.
NothingStarted ==
    /\ ws = "none"
    /\ \A i \in Events :
          /\ trace[i].ev \notin {"mkdtemp", "mkdir", "guard", "git"}
          /\ trace[i].ev = "cmd" => trace[i].argv = GoVersion

\* C20, as stated: if a requested sub-path has no go.mod, the request fails
\* with PackageRejected naming every such sub-path, before a workspace is
\* acquired and before any go mod or go list command.
C20_AsStated ==
    GoModFound("missing") # {}
        => /\ pc = "done"
           /\ err = "PackageRejected"
           /\ err_names = MissingSubpaths
           /\ NothingStarted

\* C20, amended: if a requested sub-path has no go.mod, the request fails
\* before a workspace is acquired and before any go mod or go list command
\* is run for any sub-path. It fails with PackageRejected naming every
\* sub-path without go.mod if the go.mod path of every sub-path stays
\* within the repository root; if one of them leaves the root, the search
\* ends there and the request fails with PathOutsideRoot instead.
C20_MissingGoMod ==
    GoModFound("missing") # {}
        => /\ pc = "done"
           /\ NothingStarted
           /\ IF GoModFound("outside") = {}
              THEN /\ err = "PackageRejected"
                   /\ err_names = MissingSubpaths
                   /\ GoModFound("missing") \cup GoModFound("present")
                          = DOMAIN subpaths
              ELSE err = "PathOutsideRoot"

\* C20: of the two sub-paths of the request the first has its go.mod and
\* the second has not: the request is rejected and names the second.
C20_Witness ==
    /\ pc = "done"
    /\ Len(subpaths) = 2
    /\ GoModFound("present") = {1}
    /\ GoModFound("missing") = {2}
    /\ err = "PackageRejected"
    /\ err_names = <<subpaths[2]>>
    /\ NothingStarted


\* ---------------------------------------------------------------- C21

\* get_pip_metadata has ended.
MetadataResolved == call.fn = "get_pip_metadata" /\ ret # NoCall

\* What a setup file resolves for a field: nothing if it does not exist.
Resolves(file, field) == IF file.exists THEN file[field] ELSE None

\* The value of a field: setup.py's, and setup.cfg's only without it.
Preferred(field) ==
    IF Resolves(call.setup_py, field) # None
    THEN Resolves(call.setup_py, field)
    ELSE Resolves(call.setup_cfg, field)

\* The fields no file resolves, in the order of the error message.
Unresolved ==
    SelectSeq(<<"name", "version">>, LAMBDA f : Preferred(f) = None)

\* setup.py resolved both fields.
SetupPyResolvedBoth ==
    /\ Resolves(call.setup_py, "name") # None
    /\ Resolves(call.setup_py, "version") # None

\* No method of setup.cfg was called.
SetupCfgNotConsulted ==
    \A i \in DOMAIN ret.events :
        ret.events[i] \notin {"setup_cfg.exists", "setup_cfg.get_name",
                              "setup_cfg.get_version"}

\* get_pip_metadata asked setup.cfg for the version and setup.cfg raised.
SetupCfgVersionRaises ==
    /\ Resolves(call.setup_py, "version") = None
    /\ call.setup_cfg.exists
    /\ call.setup_cfg.raises # "none"

\* The outcome by the fields alone: the pair, or CachitoError with the list
\* of the missing fields exactly when a field is unresolved.
ByTheFields ==
    /\ SetupPyResolvedBoth => SetupCfgNotConsulted
    /\ ret.raise = "CachitoError" <=> Unresolved # <<>>
    /\ ret.raise = "CachitoError" => ret.missing = Unresolved
    /\ ret.raise = "none" <=> Unresolved = <<>>
    /\ ret.raise = "none" =>
           ret.value = Some(<<Preferred("name")[1], Preferred("version")[1]>>)

CommandsOf(i) ==
    SelectSeq(trace, LAMBDA e : e.ev = "cmd" /\ e.sub = i)

ArgvsOf(i) == [k \in DOMAIN CommandsOf(i) |-> CommandsOf(i)[k].argv]

\* The command of the download step.
DownloadStep(vendoring) ==
    IF vendoring THEN <<"go", "mod", "vendor">>
    ELSE <<"go", "mod", "download", "-json">>

ReadOnly(vendoring) == IF vendoring THEN <<>> ELSE <<"-mod", "readonly">>

\* The commands that follow the download step, in the order of the claim.
AfterDownloadStep(vendoring) ==
    (IF "force-gomod-tidy" \in flags THEN <<<<"go", "mod", "tidy">>>>
     ELSE <<>>)
    \o << <<"go", "list", "-e">> \o ReadOnly(vendoring) \o <<"-m">>,
          <<"go", "list", "-e">> \o ReadOnly(vendoring)
              \o <<"-deps", "-json=ImportPath,Module,Standard,Deps", "all">>,
          <<"go", "list", "-e">> \o ReadOnly(vendoring)
              \o <<"-deps", "-json=ImportPath,Module,Standard,Deps",
                   "./...">> >>

\* The number of attempts of the download step a begins with.
RECURSIVE LeadingRuns(_, _)
LeadingRuns(a, argv) ==
    IF a # <<>> /\ Head(a) = argv THEN 1 + LeadingRuns(Tail(a), argv) ELSE 0

\* a is the download step, attempted at least once, and then the other
\* commands in their order, as far as the resolution has come.
InOrder(a, vendoring) ==
    \/ a = <<>>
    \/ /\ LeadingRuns(a, DownloadStep(vendoring)) >= 1
       /\ IsPrefixSeq(SubSeq(a, LeadingRuns(a, DownloadStep(vendoring)) + 1,
                             Len(a)),
                      AfterDownloadStep(vendoring))

\* The same, with every command run.
InOrderToTheEnd(a, vendoring) ==
    /\ LeadingRuns(a, DownloadStep(vendoring)) >= 1
    /\ SubSeq(a, LeadingRuns(a, DownloadStep(vendoring)) + 1, Len(a))
           = AfterDownloadStep(vendoring)

\* _resolve_gomod is past the arbiter for sub-path idx.
Resolving ==
    pc \in {"download", "vendor_check", "parse_vendor", "tidy", "list_main",
            "reify", "list_all", "list_packages", "validate", "create"}

\* _resolve_gomod has run its last command for sub-path i.
CommandsDone(i) ==
    \/ i < idx
    \/ i = idx /\ pc \in {"validate", "create", "copy"}

\* C22: _resolve_gomod issues its toolchain commands strictly in the order:
\* the download step (`go mod download -json`, or `go mod vendor` when
\* vendoring), `go mod tidy` if and only if the force-gomod-tidy flag is
\* set, `go list -e -m`, `go list -e -deps ... all`, `go list -e -deps ...
\* ./...`; the `go list` commands carry `-mod readonly` exactly when it is
\* not vendoring.
C22_CommandOrder ==
    \A i \in DOMAIN subpaths :
        /\ \E vendoring \in BOOLEAN :
              /\ InOrder(ArgvsOf(i), vendoring)
              /\ CommandsDone(i) => InOrderToTheEnd(ArgvsOf(i), vendoring)
        /\ Resolving /\ i = idx =>
              /\ InOrder(ArgvsOf(i), should_vendor)
              /\ pc \in {"validate", "create"} =>
                     InOrderToTheEnd(ArgvsOf(i), should_vendor)

\* Two resolutions have run every command, `go mod tidy` among them, the
\* second after a retried `go mod download`.
C22_Witness ==
    /\ Len(subpaths) = 2
    /\ pc = "create"
    /\ idx = 2
    /\ "force-gomod-tidy" \in flags
    /\ ~should_vendor
    /\ Len(ArgvsOf(2)) = 6
    /\ InOrderToTheEnd(ArgvsOf(1), FALSE)
    /\ InOrderToTheEnd(ArgvsOf(2), FALSE)


\* ---------------------------------------------------------------- C23

\* The guard has checked every path of the module at sub-path i, and
\* rejected none, before step k.
GuardPassedBefore(i, k) ==
    \E j \in 1..(k - 1) :
        /\ trace[j].ev = "guard"
        /\ trace[j].sub = i
        /\ trace[j].note = <<"go.mod", "go.sum", "vendor/modules.txt",
                             "**/*.go">>
        /\ trace[j].outcome = "ok"

\* The guard has rejected a path of the module at sub-path i.
GuardRejected(i) ==
    \E j \in DOMAIN trace :
        /\ trace[j].ev = "guard"
        /\ trace[j].sub = i
        /\ trace[j].outcome = "PathOutsideRoot"

\* No toolchain subprocess was run for the module at sub-path i.
NoCommandFor(i) ==
    \A k \in DOMAIN trace : ~(trace[k].ev = "cmd" /\ trace[k].sub = i)

\* C23 as stated: no Go toolchain subprocess is executed before the
\* rooted-path guard has checked go.mod, go.sum, vendor/modules.txt and
\* every *.go file under the module root; if the guard rejects any of these
\* paths with PathOutsideRoot, no toolchain subprocess is run for that
\* module.
C23_AsStated ==
    /\ \A k \in DOMAIN trace :
          trace[k].ev = "cmd" =>
              IF trace[k].sub = 0
              THEN \E i \in DOMAIN subpaths : GuardPassedBefore(i, k)
              ELSE GuardPassedBefore(trace[k].sub, k)
    /\ \A i \in DOMAIN subpaths : GuardRejected(i) => NoCommandFor(i)

\* C23, amended: the toolchain subprocesses of a module's resolution
\* (`go mod ...`, `go list ...`) are run only after the guard has checked
\* the four kinds of path of that module; the subprocesses of the request
\* itself are `go version`, the first step of all, before any guard, and
\* `go clean -modcache`, which is run also after a rejection; a module the
\* guard rejects gets no toolchain subprocess.
C23_GuardFirst ==
    /\ \A k \in DOMAIN trace :
          trace[k].ev = "cmd" =>
              IF trace[k].sub = 0
              THEN \/ k = 1 /\ trace[k].argv = <<"go", "version">>
                   \/ k > 1 /\ trace[k].argv = <<"go", "clean", "-modcache">>
              ELSE GuardPassedBefore(trace[k].sub, k)
    /\ \A i \in DOMAIN subpaths : GuardRejected(i) => NoCommandFor(i)

\* The guard rejected a *.go file of the second module after the first
\* module was resolved; the request is over.
C23_Witness ==
    /\ pc = "done"
    /\ err = "PathOutsideRoot"
    /\ GuardRejected(2)
    /\ \E j \in DOMAIN trace :
          /\ trace[j].ev = "guard"
          /\ trace[j].sub = 2
          /\ Len(trace[j].note) = 4
    /\ ~NoCommandFor(1)
    /\ NoCommandFor(2)


\* ---------------------------------------------------------------- C24

\* Step k is a toolchain command of a module's resolution.
IsCommand(k) == trace[k].ev = "cmd" /\ trace[k].sub >= 1

\* Step k is the command of the download step.
IsDownloadStep(k) ==
    /\ IsCommand(k)
    /\ trace[k].argv \in {<<"go", "mod", "download", "-json">>,
                          <<"go", "mod", "vendor">>}

\* Step k is `go mod tidy` or one of the three `go list` commands.
IsOtherCommand(k) == IsCommand(k) /\ ~IsDownloadStep(k)

\* No command of any resolution is run after step k.
LastCommand(k) ==
    \A l \in DOMAIN trace : l > k => ~IsCommand(l)

\* The exception a failed run leaves _run_gomod_cmd with.
ErrorOf(outcome) ==
    IF outcome = "CalledProcessError" THEN "GoModError" ELSE outcome

\* C24: within one module resolution every toolchain command other than
\* the download-step command (`go mod tidy`, `go list -e -m`, the two
\* `go list -e -deps` calls) is executed at most once, and its first failure
\* aborts the resolution, with a toolchain error for a non-zero exit, without
\* any retry; inside the download invoker an error that is not a toolchain
\* error is not retried either.
C24_NoRetry ==
    /\ \A k \in DOMAIN trace :
          /\ IsOtherCommand(k) =>
                /\ \A l \in DOMAIN trace :
                       l # k /\ trace[l].sub = trace[k].sub
                           => trace[l].argv # trace[k].argv
                /\ trace[k].outcome # "ok" => LastCommand(k)
          /\ IsDownloadStep(k) /\ trace[k].outcome = "OtherError"
                => LastCommand(k)
    /\ trace # <<>> /\ IsCommand(Len(trace))
           /\ trace[Len(trace)].outcome # "ok"
       => /\ pc = "release"
          /\ err = ErrorOf(trace[Len(trace)].outcome)
          /\ err_at \in {"download", "tidy", "list_main", "list_all",
                         "list_packages"}

\* `go list -e -deps ... all` exited non-zero in the second resolution, and
\* the request has ended after it with the toolchain error.
C24_Witness ==
    /\ pc = "done"
    /\ err = "GoModError"
    /\ err_at = "list_all"
    /\ idx = 2
    /\ \E k \in DOMAIN trace :
          /\ IsOtherCommand(k)
          /\ trace[k].sub = 2
          /\ trace[k].outcome = "CalledProcessError"
          /\ Len(trace) = k + 2


\* ---------------------------------------------------------------- C25

\* The package-modules-set followed by the downloaded-set.
Chained == package_modules \o downloaded_modules

\* The first place of q that holds a module with the key of m.
FirstWithKey(q, m) ==
    CHOOSE i \in DOMAIN q :
        /\ C9_Key(q[i]) = C9_Key(m)
        /\ \A j \in 1..(i - 1) : C9_Key(q[j]) # C9_Key(m)

\* C25: when a module of the package-modules-set and one of the
\* downloaded-set have the same key, the merged list holds the record of
\* the package-modules-set; in general the record kept for a key is the
\* first record with that key in the package-modules-set followed by the
\* downloaded-set, and a later record with the key never replaces it.
C25_FirstRecordKept ==
    pc = "validate" =>
        /\ \A i \in DOMAIN all_modules :
              all_modules[i] = Chained[FirstWithKey(Chained, all_modules[i])]
        /\ \A i \in DOMAIN package_modules, j \in DOMAIN downloaded_modules :
              C9_Key(package_modules[i]) = C9_Key(downloaded_modules[j])
                  => /\ \E k \in DOMAIN all_modules :
                           all_modules[k] =
                               package_modules[FirstWithKey(package_modules,
                                                            package_modules[i])]
                     /\ \A k \in DOMAIN all_modules :
                           C9_Key(all_modules[k]) = C9_Key(downloaded_modules[j])
                               => all_modules[k] \in Range(package_modules)

\* The merge has run on a package-modules-set and a downloaded-set that
\* hold different records with the same key, and kept the former's.
C25_Witness ==
    /\ pc = "validate"
    /\ \E i \in DOMAIN package_modules, j \in DOMAIN downloaded_modules :
          /\ C9_Key(package_modules[i]) = C9_Key(downloaded_modules[j])
          /\ package_modules[i] # downloaded_modules[j]
          /\ downloaded_modules[j] \notin Range(package_modules)
          /\ package_modules[i] \in Range(all_modules)
          /\ downloaded_modules[j] \notin Range(all_modules)


\* ---------------------------------------------------------------- C26

\* The modules of the final list the claim's rule admits as the owner of a
\* parsed package: by the name of the module it carries, or else by the
\* prefixes, by path segments, of its import path.
Candidates(parsed) ==
    IF parsed.module # None
    THEN {i \in DOMAIN ret.modules :
             ret.modules[i].original_name = parsed.module[1].path}
    ELSE {i \in DOMAIN ret.modules :
             IsPrefixSeq(Segments(ret.modules[i].original_name),
                         Segments(parsed.import_path))}

\* Among them, those of the longest original_name.
Owners(parsed) ==
    {i \in Candidates(parsed) :
        \A j \in Candidates(parsed) :
            Len(Segments(ret.modules[j].original_name))
                <= Len(Segments(ret.modules[i].original_name))}

\* C26: every parsed package that is not of the standard library gets
\* exactly one owning module of the final module list: the module whose
\* original_name is the path of the module the package carries, or, when it
\* carries none, the module with the longest original_name that is a prefix
\* by path segments of the import path; when no module matches, the
\* construction of the packages fails with an error; a package of the
\* standard library gets no owning module.
C26_OwningModule ==
    ModulesCreated =>
        /\ \A i \in DOMAIN call.parsed_packages :
              ~call.parsed_packages[i].standard
                  => Cardinality(Owners(call.parsed_packages[i])) <= 1
        /\ (\E i \in DOMAIN call.parsed_packages :
               /\ ~call.parsed_packages[i].standard
               /\ Owners(call.parsed_packages[i]) = {})
              => ret.packages.raise \in {"KeyError", "RuntimeError",
                                         "ValueError"}
        /\ ret.packages.raise = "none" =>
              \A i \in DOMAIN call.parsed_packages :
                  IF call.parsed_packages[i].standard
                  THEN "module" \notin DOMAIN ret.packages.value[i]
                  ELSE \E o \in Owners(call.parsed_packages[i]) :
                           ret.packages.value[i].module = ret.modules[o]

\* The package c/y/z, reported without a module, belongs to the module c/y
\* and not to the module c, which comes first in the list; the package
\* c/yy belongs to c.
C26_Witness ==
    /\ PackagesCreated
    /\ call.parsed_modules = <<M_c, M_c_y>>
    /\ call.parsed_packages = <<P_c_y_z, P_c_yy>>
    /\ ret.packages.value[1].module.original_name = <<"c", "/", "y">>
    /\ ret.packages.value[2].module.original_name = <<"c">>

\* A package without a module that no module's name is a prefix of: the
\* construction has failed.
C26_NoOwner ==
    /\ ModulesCreated
    /\ call.parsed_packages = <<P_m, P_z>>
    /\ ret.packages.raise = "RuntimeError"


\* ---------------------------------------------------------------- C27

\* C27: for every package built from a parsed package with import path i
\* and owning module m, relative_path is empty exactly when i is
\* m.original_name, and otherwise m.original_name, a slash and
\* relative_path make up i: the relative path is the part of the import
\* path below the module's original name, no character added or removed.
C27_RelativePath ==
    PackagesCreated =>
        \A k \in DOMAIN call.parsed_packages :
            ~call.parsed_packages[k].standard =>
                /\ ret.packages.value[k].relative_path = <<>>
                       <=> call.parsed_packages[k].import_path
                               = ret.packages.value[k].module.original_name
                /\ ret.packages.value[k].relative_path # <<>>
                       => ret.packages.value[k].module.original_name
                              \o <<"/">>
                              \o ret.packages.value[k].relative_path
                          = call.parsed_packages[k].import_path


\* ---------------------------------------------------------------- C28

\* The steps at which a workspace is created, and those at which one is
\* removed.
Acquisitions == {k \in DOMAIN trace : trace[k].ev = "mkdtemp"}

Releases == {k \in DOMAIN trace : trace[k].ev = "rmtree"}

\* The command of step k has its module cache in the workspace w.
UsesWorkspace(k, w) ==
    /\ trace[k].has_env
    /\ {"GOPATH", "GOCACHE", "GOMODCACHE"} \subseteq DOMAIN trace[k].env
    /\ trace[k].env["GOPATH"] = w
    /\ trace[k].env["GOCACHE"] = w
    /\ trace[k].env["GOMODCACHE"] = "tmp_dir/pkg/mod"

\* Every command of a module's resolution is run between the creation of a
\* workspace and its removal, and uses that workspace.
ResolutionsShareWorkspace ==
    \A k \in DOMAIN trace :
        IsCommand(k) =>
            /\ \E a \in Acquisitions :
                  /\ a < k
                  /\ trace[a].note = <<"tmp_dir">>
                  /\ UsesWorkspace(k, trace[a].note[1])
            /\ \A r \in Releases : k < r

CacheCopies == {k \in DOMAIN trace : trace[k].ev = "copytree"}

\* The last command of the resolution of sub-path i has succeeded before
\* step k.
ResolvedBefore(i, k) ==
    \E l \in 1..(k - 1) :
        /\ IsCommand(l)
        /\ trace[l].sub = i
        /\ trace[l].argv[Len(trace[l].argv)] = "./..."
        /\ trace[l].outcome = "ok"

\* Step k belongs to the release of the workspace.
IsRelease(k) ==
    \/ trace[k].ev = "rmtree"
    \/ trace[k].ev = "cmd" /\ trace[k].argv = <<"go", "clean", "-modcache">>

\* C29: the module cache is copied into the download directory only after
\* every requested module has been resolved successfully, and before the
\* workspace's `go clean -modcache` and removal; if the resolution of a
\* module fails, nothing is copied, not even for the modules resolved
\* before it, and the workspace is released all the same.
C29_CopyAfterAll ==
    /\ Cardinality(CacheCopies) <= 1
    /\ \A k \in CacheCopies :
          /\ \A i \in DOMAIN subpaths : ResolvedBefore(i, k)
          /\ \A l \in 1..(k - 1) : ~IsRelease(l)
          /\ pc \in {"release", "done"}
          /\ idx = Len(subpaths)
          /\ err = "none" \/ err_at = "release"
    /\ pc = "release" =>
          IF err = "none"
          THEN idx = Len(subpaths) /\ modules # <<>>
          ELSE CacheCopies = {}
    /\ pc = "done" /\ Acquisitions # {} =>
          /\ ws = "removed"
          /\ Len(trace) >= 2
          /\ IsRelease(Len(trace) - 1)
          /\ IsRelease(Len(trace))
          /\ \A k \in CacheCopies : k < Len(trace) - 1

\* The cache was copied after two resolutions and the workspace released.
C29_Witness ==
    /\ pc = "done"
    /\ err = "none"
    /\ Len(subpaths) = 2
    /\ CacheCopies # {}
    /\ ws = "removed"

\* The second resolution failed: nothing was copied, and the workspace was
\* released.
C29_NothingCopied ==
    /\ pc = "done"
    /\ err = "GoModError"
    /\ err_at = "list_packages"
    /\ idx = 2
    /\ CacheCopies = {}
    /\ ws = "removed"
    /\ flags = {}


\* ---------------------------------------------------------------- C30

\* _split_options_and_requirement has ended.
SplitDone == call.fn = "_split_options_and_requirement" /\ ret # NoCall

\* The tokens of the line, separated by white space.
Tokens == split(call.line, <<>>)

\* The place of the first "=" of a token, 0 without one.
EqualsAt(t) ==
    IF \E i \in DOMAIN t : t[i] = "="
    THEN CHOOSE i \in DOMAIN t :
             t[i] = "=" /\ \A j \in 1..(i - 1) : t[j] # "="
    ELSE 0

\* The option an option token names, and the value it gives with "=",
\* empty when it gives none.
OptionName(t) ==
    IF EqualsAt(t) = 0 THEN t ELSE SubSeq(t, 1, EqualsAt(t) - 1)

OptionValue(t) ==
    IF EqualsAt(t) = 0 THEN <<>> ELSE SubSeq(t, EqualsAt(t) + 1, Len(t))

\* The option of the token requires a value and the token gives none.
WantsNextToken(t) ==
    OptionName(t) \in OptionsWithValue /\ OptionValue(t) = <<>>

\* What each token is: the value of the option before it, an option, or a
\* part of the requirement.
RECURSIVE Roles(_, _)
Roles(ts, wanted) ==
    IF ts = <<>> THEN <<>>
    ELSE IF wanted THEN <<"value">> \o Roles(Tail(ts), FALSE)
    ELSE IF Head(ts)[1] = "-"
    THEN <<"option">> \o Roles(Tail(ts), WantsNextToken(Head(ts)))
    ELSE <<"requirement">> \o Roles(Tail(ts), FALSE)

Role(k) == Roles(Tokens, FALSE)[k]

\* The output a token goes to: an option by its name, a value with its
\* option.
Output(k) ==
    IF Role(k) = "requirement" THEN "requirement"
    ELSE IF OptionName(Tokens[IF Role(k) = "value" THEN k - 1 ELSE k])
                \in {<<"-", "e">>,
                     <<"-", "-", "e", "d", "i", "t", "a", "b", "l", "e">>,
                     <<"-", "-", "h", "a", "s", "h">>}
    THEN "requirement_options"
    ELSE "global_options"

\* What a token adds to its output.
Entries(k) ==
    IF Role(k) # "option" THEN <<Tokens[k]>>
    ELSE <<OptionName(Tokens[k])>>
         \o (IF OptionValue(Tokens[k]) # <<>>
             THEN <<OptionValue(Tokens[k])>> ELSE <<>>)

\* The entries of the tokens from k on that go to the output, in order.
RECURSIVE Gathered(_, _)
Gathered(k, output) ==
    IF k > Len(Tokens) THEN <<>>
    ELSE (IF Output(k) = output THEN Entries(k) ELSE <<>>)
         \o Gathered(k + 1, output)

\* The four failures.
OptionNotAllowed ==
    \E k \in DOMAIN Tokens :
        /\ Role(k) = "option"
        /\ OptionName(Tokens[k]) \notin OptionsWithValue \cup OptionsWithoutValue

ValueNotWanted ==
    \E k \in DOMAIN Tokens :
        /\ Role(k) = "option"
        /\ OptionName(Tokens[k]) \in OptionsWithoutValue
        /\ OptionValue(Tokens[k]) # <<>>

ValueMissing ==
    /\ Tokens # <<>>
    /\ Role(Len(Tokens)) = "option"
    /\ WantsNextToken(Tokens[Len(Tokens)])

RequirementMissing ==
    /\ Gathered(1, "requirement_options") # <<>>
    /\ Gathered(1, "requirement") = <<>>

\* C30: _split_options_and_requirement puts every token of the line,
\* separated by white space, in exactly one of the global options, the
\* requirement options and the requirement text, in their order: an option
\* that requires a value takes what follows its "=" or else the next
\* token, and -e, --editable and --hash go with their values to the
\* requirement options, every other option to the global options. It fails
\* with ValidationError, returning nothing, when an option is not allowed,
\* when "=" gives a value to an option that takes none, when the line ends
\* with a value missing, and when there are requirement options without a
\* requirement; otherwise it returns.
C30_SplitOptions ==
    SplitDone =>
        /\ ret.raise \in {"none", "ValidationError"}
        /\ ret.raise = "ValidationError"
               <=> \/ OptionNotAllowed
                   \/ ValueNotWanted
                   \/ ValueMissing
                   \/ RequirementMissing
        /\ ret.raise = "ValidationError" => ret.value = <<>>
        /\ ret.raise = "none" =>
               ret.value = <<Gathered(1, "global_options"),
                             Gathered(1, "requirement_options"),
                             join(Gathered(1, "requirement"), <<" ">>)>>

\* The line `--hash=h  a==1  --pre`: the hash with its value goes to the
\* requirement options, --pre to the global options.
C30_Witness ==
    /\ SplitDone
    /\ call.line = join(<<T_hash_h, T_req, T_pre>>, <<" ", " ">>)
    /\ ret.raise = "none"
    /\ ret.value = << <<T_pre>>, <<T_hash, <<"h">>>>, T_req >>

====
